---- MODULE Spec2Model ----
(***************************************************************************)
(* Approval decision and execution pipeline of codex-cli:                  *)
(*   approvals.ts            canAutoApprove, isSafeCommand, patch scope    *)
(*   handle-exec-command.ts  handleExecCommand, the session approval cache *)
(*   exec.ts                 exec / execApplyPatch dispatch                *)
(*                                                                         *)
(* Strings are sequences of atoms.  An atom is a TLA+ string standing for  *)
(* a fixed run of characters ("apply_patch", "-", "/", " ", "lc", ...).    *)
(* Every literal the code tests against is spelled with the same atoms as  *)
(* the inputs, so prefix, substring, split and equality tests are decided  *)
(* on the atoms exactly as the code decides them on characters.            *)
(***************************************************************************)
EXTENDS Integers, Sequences, FiniteSets, TLC

VARIABLES
    platform,               \* process.platform
    sandboxExecAvailable,   \* isSandboxExecAvailable (resolved once per process)
    allowNoSandbox,         \* CODEX_UNSAFE_ALLOW_NO_SANDBOX
    alwaysApprovedCommands, \* the session approval cache (set of keys)
    pending,                \* handleExecCommand calls awaiting getCommandConfirmation
    last,                   \* what the most recent handler step did
    pc,                     \* position of the pure-function harness
    arg,                    \* arguments handed to canAutoApprove by the harness
    out                     \* the verdict canAutoApprove returned

vars == <<platform, sandboxExecAvailable, allowNoSandbox,
          alwaysApprovedCommands, pending, last, pc, arg, out>>

----------------------------------------------------------------------------
(* JavaScript string primitives on atom sequences *)

S1(a) == <<a>>

EmptyStr == <<>>

StartsWith(s, p) ==
    /\ Len(s) >= Len(p)
    /\ \A i \in 1..Len(p) : s[i] = p[i]

EndsWith(s, p) ==
    /\ Len(s) >= Len(p)
    /\ \A i \in 1..Len(p) : s[Len(s) - Len(p) + i] = p[i]

Includes(s, a) == \E i \in 1..Len(s) : s[i] = a

IsWhitespace(a) == a \in {" ", "\n", "\t"}

\* s.slice(n): the string without its first n atoms
SliceFrom(s, n) == IF n >= Len(s) THEN <<>> ELSE SubSeq(s, n + 1, Len(s))

\* index of the first atom of s at or after i satisfying whitespace, else Len(s)+1
RECURSIVE FirstWhitespaceFrom(_, _)
FirstWhitespaceFrom(s, i) ==
    IF i > Len(s) THEN Len(s) + 1
    ELSE IF IsWhitespace(s[i]) THEN i
    ELSE FirstWhitespaceFrom(s, i + 1)

\* s.split(/\s+/)[0]: everything before the first whitespace (possibly empty)
SplitWsFirst(s) == SubSeq(s, 1, FirstWhitespaceFrom(s, 1) - 1)

RECURSIVE TrimLeft(_)
TrimLeft(s) ==
    IF s # <<>> /\ IsWhitespace(s[1]) THEN TrimLeft(Tail(s)) ELSE s

RECURSIVE TrimRight(_)
TrimRight(s) ==
    IF s # <<>> /\ IsWhitespace(s[Len(s)])
    THEN TrimRight(SubSeq(s, 1, Len(s) - 1)) ELSE s

Trim(s) == TrimRight(TrimLeft(s))

\* toLowerCase of one atom; atoms without upper-case letters map to themselves
LowerAtom(a) ==
    CASE a = "LS" -> "ls"
      [] a = "DIR" -> "dir"
      [] a = "CD" -> "cd"
      [] a = "GIT" -> "git"
      [] a = "Status" -> "status"
      [] a = "PowerShell" -> "powershell"
      [] a = "N" -> "n"
      [] a = "B" -> "b"
      [] a = "C" -> "c"
      [] OTHER -> a

ToLowerCase(s) == [i \in 1..Len(s) |-> LowerAtom(s[i])]

\* s.split(sep) for a one-atom separator: the list of pieces
RECURSIVE SplitOn(_, _, _, _)
SplitOn(s, sep, cur, acc) ==
    IF s = <<>> THEN Append(acc, cur)
    ELSE IF s[1] = sep THEN SplitOn(Tail(s), sep, <<>>, Append(acc, cur))
    ELSE SplitOn(Tail(s), sep, Append(cur, s[1]), acc)

Split(s, sep) == SplitOn(s, sep, <<>>, <<>>)

\* pieces.join(sep)
RECURSIVE Join(_, _)
Join(pieces, sep) ==
    IF pieces = <<>> THEN <<>>
    ELSE IF Len(pieces) = 1 THEN pieces[1]
    ELSE pieces[1] \o <<sep>> \o Join(Tail(pieces), sep)

\* JSON.stringify of an array of strings: ["a","b"]
RECURSIVE JsonItems(_)
JsonItems(cmd) ==
    IF cmd = <<>> THEN <<>>
    ELSE <<"\"">> \o cmd[1] \o <<"\"">>
         \o (IF Len(cmd) > 1 THEN <<",">> ELSE <<>>) \o JsonItems(Tail(cmd))

JsonStringify(cmd) == <<"[">> \o JsonItems(cmd) \o <<"]">>

----------------------------------------------------------------------------
(* Literals of the program *)

APPLY_PATCH == S1("apply_patch")
BASH == S1("bash")
DASH_LC == <<"-", "lc">>
\* the atom of the backtick character
BACKTICK == "<backtick>"

Policies == {"suggest", "auto-edit", "full-auto", "full_auto", "none"}

Platforms == {"linux", "darwin", "win32"}

Safe(reason, group) == [ok |-> TRUE, reason |-> reason, group |-> group]

\* the null result of isSafeCommand / isEntireShellExpressionSafe
NotSafe == [ok |-> FALSE, reason |-> "", group |-> ""]

----------------------------------------------------------------------------
(* approvals.ts: isSafeCommand *)

HasShellMeta(cmdArray) ==
    \E i \in 2..Len(cmdArray) :
        Includes(cmdArray[i], BACKTICK) \/ Includes(cmdArray[i], "$")

IsDigits(s) == s # <<>> /\ \A i \in 1..Len(s) : s[i] \in {"0", "1", "5", "10", "20"}

\* (mutation: the pattern is not anchored at the end)
isValidSedNArg_Unanchored(a) ==
    \E k \in 2..Len(a) :
        /\ a[k] = "p"
        /\ LET parts == Split(SubSeq(a, 1, k - 1), ",")
           IN  /\ Len(parts) \in {1, 2}
               /\ \A i \in 1..Len(parts) : IsDigits(parts[i])

\* VALID_SED_N_ARG = /^[0-9]+(,[0-9]+)?[p]$/
isValidSedNArg(a) ==
    /\ Len(a) >= 2
    /\ a[Len(a)] = "p"
    /\ LET body == SubSeq(a, 1, Len(a) - 1)
           parts == Split(body, ",")
       IN  /\ Len(parts) \in {1, 2}
           /\ \A i \in 1..Len(parts) : IsDigits(parts[i])

UNSAFE_OPTIONS_FOR_FIND_COMMAND ==
    { <<"-", "exec">>, <<"-", "execdir">>, <<"-", "ok">>, <<"-", "okdir">>,
      <<"-", "delete">>, <<"-", "fls">>, <<"-", "fprint">>, <<"-", "fprint0">>,
      <<"-", "fprintf">> }

safeDirOptions ==
    { <<"/", "ad">>, <<"/", "b">>, <<"/", "s">>, <<"/", "o">>, <<"/", "on">>,
      <<"/", "od">>, <<"/", "og">>, <<"/", "os">>, <<"/", "oe">>, <<"/", "a">> }

IsOptionLike(a) == StartsWith(a, S1("/")) \/ StartsWith(a, S1("-"))

\* the workaround for the over-quoted single string 'dir > file.txt'
QuotedDirRedirect(command) ==
    /\ Len(command) = 1
    /\ StartsWith(command[1], <<"'", "dir", " ", ">", " ">>)
    /\ EndsWith(command[1], S1("'"))
    /\ Len(command[1]) >= 2
    /\ LET inner == SubSeq(command[1], 2, Len(command[1]) - 1)
           parts == Split(inner, " ")
       IN  /\ Len(parts) = 3
           /\ ToLowerCase(parts[1]) = S1("dir")
           /\ parts[2] = S1(">")
           /\ parts[3] # <<>>
           /\ ~StartsWith(parts[3], S1("/"))
           /\ ~StartsWith(parts[3], S1("-"))

Handler_dir(cmdArray) ==
    IF platform # "win32" THEN NotSafe
    ELSE IF Len(cmdArray) = 1 /\ ToLowerCase(cmdArray[1]) = S1("dir")
    THEN Safe("List directory contents", "File system")
    ELSE IF /\ Len(cmdArray) = 3
            /\ ToLowerCase(cmdArray[1]) = S1("dir")
            /\ cmdArray[2] \in {S1(">"), S1(">>")}
            /\ cmdArray[3] # <<>>
            /\ ~StartsWith(cmdArray[3], S1("-"))
    THEN Safe("List directory contents and redirect to file", "File system")
    ELSE IF \E i \in 2..Len(cmdArray) :
               /\ cmdArray[i] # <<>>
               /\ IsOptionLike(cmdArray[i])
               /\ ToLowerCase(cmdArray[i]) \notin safeDirOptions
    THEN NotSafe
    ELSE Safe("List directory contents", "File system")

safeSubCommands ==
    { S1("status"), S1("diff"), S1("log"), S1("show"), S1("branch"), S1("tag"),
      <<"rev", "-", "parse">>, <<"shortlog", " ", "-", "s", " ", "-", "n">> }

GitReason(sub) ==
    CASE sub = S1("status") -> "View status"
      [] sub = S1("diff") -> "View differences"
      [] sub = S1("log") -> "View history"
      [] sub = S1("show") -> "View specific commit/object"
      [] sub = S1("branch") -> "List branches"
      [] sub = S1("tag") -> "List tags"
      [] sub = <<"rev", "-", "parse">> -> "Find commit IDs"
      [] OTHER -> "Summarize git log"

Handler_git(cmdArray) ==
    IF Len(cmdArray) < 2 \/ cmdArray[2] = <<>> THEN NotSafe
    ELSE LET subCommand == ToLowerCase(cmdArray[2]) IN
    IF /\ subCommand = S1("shortlog")
       /\ Len(cmdArray) >= 4
       /\ cmdArray[3] = <<"-", "s">>
       /\ cmdArray[4] = <<"-", "n">>
    THEN Safe("Summarize git log", "Versioning")
    ELSE IF subCommand \in safeSubCommands
    THEN IF /\ subCommand \in {S1("branch"), S1("tag")}
            /\ Len(cmdArray) > 2
            /\ \A i \in 3..Len(cmdArray) : ~StartsWith(cmdArray[i], S1("-"))
         THEN NotSafe
         ELSE Safe(GitReason(subCommand),
                   IF subCommand \in {S1("diff"), S1("log"), S1("show")}
                   THEN "Using git" ELSE "Versioning")
    ELSE IF /\ subCommand = S1("apply")
            /\ \E i \in 1..Len(cmdArray) : cmdArray[i] = <<"-", "-", "check">>
            /\ \E i \in 1..Len(cmdArray) : cmdArray[i] = <<"-", "-", "stat">>
    THEN Safe("Check patch applicability", "Source control")
    ELSE NotSafe

Handler_sed(cmdArray) ==
    IF /\ Len(cmdArray) \in {3, 4}
       /\ ToLowerCase(cmdArray[2]) = <<"-", "n">>
       /\ isValidSedNArg(cmdArray[3])
    THEN Safe("Sed print subset", "Reading files")
    ELSE NotSafe

Handler_start(cmdArray) ==
    IF platform # "win32" THEN NotSafe
    ELSE IF Len(cmdArray) = 2
    THEN IF cmdArray[2] # <<>> /\ ~IsOptionLike(cmdArray[2])
         THEN Safe("Open file/directory with default application", "File system")
         ELSE NotSafe
    ELSE IF Len(cmdArray) = 3
    THEN LET program == ToLowerCase(cmdArray[2]) IN
         IF /\ program \in {S1("notepad"), S1("explorer")}
            /\ cmdArray[3] # <<>>
            /\ (program = S1("explorer") \/ ~IsOptionLike(cmdArray[3]))
         THEN Safe(IF program = S1("explorer")
                   THEN "Open with explorer" ELSE "Open with notepad",
                   "File system")
         ELSE NotSafe
    ELSE NotSafe

Handler_cmd(cmdArray) ==
    IF platform # "win32" THEN NotSafe
    ELSE IF /\ Len(cmdArray) = 3
            /\ ToLowerCase(cmdArray[1]) = S1("cmd")
            /\ ToLowerCase(cmdArray[2]) = <<"/", "c">>
            /\ ToLowerCase(cmdArray[3]) = S1("dir")
    THEN Safe("List directory contents via cmd", "File system")
    ELSE IF /\ Len(cmdArray) = 5
            /\ ToLowerCase(cmdArray[1]) = S1("cmd")
            /\ ToLowerCase(cmdArray[2]) = <<"/", "c">>
            /\ ToLowerCase(cmdArray[3]) = S1("dir")
            /\ cmdArray[4] \in {S1(">"), S1(">>")}
            /\ cmdArray[5] # <<>>
            /\ ~StartsWith(cmdArray[5], S1("-"))
    THEN Safe("List directory contents via cmd and redirect to file", "File system")
    ELSE NotSafe

\* (mutation: only the token right after the program name is examined)
Handler_find_FirstArgumentOnly(cmdArray) ==
    IF Len(cmdArray) >= 2 /\ cmdArray[2] \in UNSAFE_OPTIONS_FOR_FIND_COMMAND
    THEN NotSafe
    ELSE Safe("Find files or directories", "Searching")

Handler_find(cmdArray) ==
    IF \E i \in 1..Len(cmdArray) : cmdArray[i] \in UNSAFE_OPTIONS_FOR_FIND_COMMAND
    THEN NotSafe
    ELSE Safe("Find files or directories", "Searching")

Handler_type(cmdArray) ==
    IF platform # "win32" THEN NotSafe
    ELSE IF /\ Len(cmdArray) = 2
            /\ ToLowerCase(cmdArray[1]) = S1("type")
            /\ cmdArray[2] # <<>>
            /\ ~IsOptionLike(cmdArray[2])
    THEN Safe("Display file contents", "File system")
    ELSE NotSafe

Handler_cargo(cmdArray) ==
    IF Len(cmdArray) >= 2 /\ ToLowerCase(cmdArray[2]) = S1("check")
    THEN Safe("Cargo check", "Building")
    ELSE NotSafe

\* the exception isSafeCommand raises when the looked-up handler is not callable
ThrownTypeError == [ok |-> FALSE, reason |-> "TypeError", group |-> "throw"]

\* commandHandlers[cmdName](command).  commandHandlers is a plain object
\* literal, so the lookup also finds what Object.prototype carries under an
\* all-lower-case name: "constructor" (the function Object, which returns
\* its argument: a non-null value without reason or group) and "__proto__"
\* (Object.prototype itself: truthy and not callable).
commandHandlers(cmdName, command) ==
    CASE cmdName = S1("cd") -> Safe("Change directory", "Navigating")
      [] cmdName = S1("ls") ->
            IF HasShellMeta(command) THEN NotSafe
            ELSE Safe("List directory", "Searching")
      [] cmdName = S1("dir") -> Handler_dir(command)
      [] cmdName = S1("pwd") -> Safe("Print working directory", "Navigating")
      [] cmdName = S1("true") -> Safe("No-op (true)", "Utility")
      [] cmdName = S1("false") -> Safe("No-op (false)", "Utility")
      [] cmdName = S1("echo") -> Safe("Echo string", "Printing")
      [] cmdName = S1("cat") ->
            IF HasShellMeta(command) THEN NotSafe
            ELSE Safe("View file contents", "Reading files")
      [] cmdName = S1("nl") -> Safe("View file with line numbers", "Reading files")
      [] cmdName = S1("clear") -> Safe("Clear screen", "Utility")
      [] cmdName = S1("grep") ->
            IF HasShellMeta(command) THEN NotSafe
            ELSE Safe("Text search (grep)", "Searching")
      [] cmdName = S1("head") -> Safe("Show file head", "Reading files")
      [] cmdName = S1("tail") -> Safe("Show file tail", "Reading files")
      [] cmdName = S1("which") -> Safe("Locate command", "Searching")
      [] cmdName = S1("git") -> Handler_git(command)
      [] cmdName = S1("cargo") -> Handler_cargo(command)
      [] cmdName = S1("sed") -> Handler_sed(command)
      [] cmdName = S1("start") -> Handler_start(command)
      [] cmdName = S1("cmd") -> Handler_cmd(command)
      [] cmdName = S1("find") -> Handler_find(command)
      [] cmdName = S1("rg") -> Safe("Ripgrep search", "Searching")
      [] cmdName = S1("wc") -> Safe("Word count", "Reading files")
      [] cmdName = S1("type") -> Handler_type(command)
      [] cmdName = S1("constructor") -> Safe("undefined", "undefined")
      [] cmdName = S1("__proto__") -> ThrownTypeError
      [] OTHER -> NotSafe

isSafeCommand(command) ==
    IF Len(command) = 0 THEN NotSafe
    ELSE IF ToLowerCase(command[1]) \in {S1("powershell"), S1("pwsh")}
    THEN Safe("PowerShell command", "PowerShell")
    ELSE IF QuotedDirRedirect(command)
    THEN Safe("List directory contents and redirect to file (auto-approved due to unwrapping agent's quotes)",
              "File system")
    ELSE IF command[1] = <<>> THEN NotSafe
    ELSE commandHandlers(ToLowerCase(command[1]), command)

----------------------------------------------------------------------------
(* The shell tokenizer (shell-quote's parse) as canAutoApprove uses it: a   *)
(* script becomes a list of entries, literal strings and operators, or the *)
(* call throws.                                                            *)

StrEntry(s) == [kind |-> "str", val |-> s]
OpEntry(o) == [kind |-> "op", val |-> S1(o)]

ControlOperators ==
    {"&&", "||", "|", ";", ";;", "|&", "&", "(", ")", "<", ">", ">>", ">&", "<&"}

\* the atom on which the tokenizer throws ("Bad substitution")
BAD_SUBSTITUTION == "${"

FlushToken(cur, has, glob, acc) ==
    IF ~has THEN acc
    ELSE IF glob THEN Append(acc, [kind |-> "op", val |-> S1("glob")])
    ELSE Append(acc, StrEntry(cur))

RECURSIVE Tokenize(_, _, _, _, _, _)
Tokenize(s, cur, has, glob, inq, acc) ==
    IF s = <<>> THEN FlushToken(cur, has, glob, acc)
    ELSE LET a == s[1] rest == Tail(s) IN
    IF inq
    THEN IF a = "'" THEN Tokenize(rest, cur, TRUE, glob, FALSE, acc)
         ELSE Tokenize(rest, Append(cur, a), TRUE, glob, TRUE, acc)
    ELSE IF a = "'" THEN Tokenize(rest, cur, TRUE, glob, TRUE, acc)
    ELSE IF IsWhitespace(a)
    THEN Tokenize(rest, <<>>, FALSE, FALSE, FALSE, FlushToken(cur, has, glob, acc))
    ELSE IF a \in ControlOperators
    THEN Tokenize(rest, <<>>, FALSE, FALSE, FALSE,
                  Append(FlushToken(cur, has, glob, acc), OpEntry(a)))
    ELSE IF a = "<<"
    THEN Tokenize(rest, <<>>, FALSE, FALSE, FALSE,
                  FlushToken(cur, has, glob, acc) \o <<OpEntry("<"), OpEntry("<")>>)
    ELSE IF a = "$"
    \* $NAME: the variable is not set in env, the substitution is empty
    THEN Tokenize(IF rest = <<>> THEN rest ELSE Tail(rest), cur, has, glob, FALSE, acc)
    ELSE IF a = "*" THEN Tokenize(rest, Append(cur, a), TRUE, TRUE, FALSE, acc)
    ELSE Tokenize(rest, Append(cur, a), TRUE, glob, FALSE, acc)

parse(script) ==
    IF Includes(script, BAD_SUBSTITUTION)
    THEN [threw |-> TRUE, parts |-> <<>>]
    ELSE [threw |-> FALSE, parts |-> Tokenize(script, <<>>, FALSE, FALSE, FALSE, <<>>)]

----------------------------------------------------------------------------
(* approvals.ts: isEntireShellExpressionSafe *)

SAFE_SHELL_OPERATORS == {"&&", "||", "|", ";"}

\* flushSegment on the classifier's answer for a non-empty segment: [ok, first]
FlushWith(assessment, firstReason) ==
    IF ~assessment.ok THEN [ok |-> FALSE, first |-> firstReason]
    ELSE [ok |-> TRUE, first |-> IF firstReason.ok THEN firstReason ELSE assessment]

\* flushSegment: an empty segment passes; otherwise the classifier decides.
\* An exception of the classifier is caught by the enclosing try.
flushSegment(currentSegment, firstReason) ==
    IF currentSegment = <<>> THEN [ok |-> TRUE, first |-> firstReason]
    ELSE FlushWith(isSafeCommand(currentSegment), firstReason)

RECURSIVE WalkParts(_, _, _)

\* the loop body for an operator entry, once the segment before it is flushed
AfterOperator(parts, flushed) ==
    IF ~flushed.ok THEN NotSafe
    ELSE IF parts[1].val[1] \notin SAFE_SHELL_OPERATORS THEN NotSafe
    ELSE WalkParts(Tail(parts), <<>>, flushed.first)

\* (mutation: the trailing segment is not validated)
AfterLoop_TrailingSegmentUnchecked(flushed) == flushed.first

\* the end of the loop, once the trailing segment is flushed
AfterLoop(flushed) == IF flushed.ok THEN flushed.first ELSE NotSafe

WalkParts(parts, currentSegment, firstReason) ==
    IF parts = <<>> THEN AfterLoop(flushSegment(currentSegment, firstReason))
    ELSE IF parts[1].kind = "str"
    THEN IF parts[1].val \in {S1("("), S1(")"), S1("{"), S1("}")} THEN NotSafe
         ELSE WalkParts(Tail(parts), Append(currentSegment, parts[1].val), firstReason)
    ELSE AfterOperator(parts, flushSegment(currentSegment, firstReason))

isEntireShellExpressionSafe(parts) ==
    IF Len(parts) = 0 THEN NotSafe
    ELSE WalkParts(parts, <<>>, NotSafe)

----------------------------------------------------------------------------
(* Node's path module (POSIX flavour) on atom strings; "/" is one atom *)

\* process.cwd()
ProcessCwd == <<"/", "home", "/", "u", "/", "proj">>

isAbsolute(p) == p # <<>> /\ p[1] = "/"

\* collapse ".", "" and ".." in a list of segments
RECURSIVE Collapse(_, _, _)
Collapse(segs, abs, acc) ==
    IF segs = <<>> THEN acc
    ELSE LET s == segs[1] IN
    IF s = <<>> \/ s = S1(".") THEN Collapse(Tail(segs), abs, acc)
    ELSE IF s = S1("..")
    THEN IF acc # <<>> /\ acc[Len(acc)] # S1("..")
         THEN Collapse(Tail(segs), abs, SubSeq(acc, 1, Len(acc) - 1))
         ELSE IF abs THEN Collapse(Tail(segs), abs, acc)
         ELSE Collapse(Tail(segs), abs, Append(acc, s))
    ELSE Collapse(Tail(segs), abs, Append(acc, s))

\* path.normalize (a trailing separator is dropped: no caller looks at it)
normalize(p) ==
    LET segs == Collapse(Split(p, "/"), isAbsolute(p), <<>>) IN
    IF isAbsolute(p) THEN <<"/">> \o Join(segs, "/")
    ELSE IF segs = <<>> THEN S1(".")
    ELSE Join(segs, "/")

\* path.resolve(base, p): base is itself resolved against process.cwd()
resolve(base, p) ==
    IF isAbsolute(p) THEN normalize(p)
    ELSE IF isAbsolute(base) THEN normalize(base \o <<"/">> \o p)
    ELSE normalize(ProcessCwd \o <<"/">> \o base \o <<"/">> \o p)

RECURSIVE CommonPrefixLen(_, _)
CommonPrefixLen(a, b) ==
    IF a = <<>> \/ b = <<>> \/ a[1] # b[1] THEN 0
    ELSE 1 + CommonPrefixLen(Tail(a), Tail(b))

\* path.relative(from, to)
relative(from, to) ==
    LET f == Collapse(Split(resolve(<<>>, from), "/"), TRUE, <<>>)
        g == Collapse(Split(resolve(<<>>, to), "/"), TRUE, <<>>)
        n == CommonPrefixLen(f, g)
        ups == [i \in 1..(Len(f) - n) |-> S1("..")]
    IN  Join(ups \o SliceFrom(g, n), "/")

\* approvals.ts: resolvePathAgainstWorkdir; an undefined workdir is <<>>
resolvePathAgainstWorkdir(candidatePath, workdir) ==
    LET normalizedCandidatePath == normalize(candidatePath) IN
    IF isAbsolute(normalizedCandidatePath) THEN normalizedCandidatePath
    ELSE resolve(workdir, normalizedCandidatePath)

pathContains(parent, child) ==
    LET rel == relative(parent, child) IN
    /\ rel # <<>>
    /\ ~StartsWith(rel, S1(".."))
    /\ ~isAbsolute(rel)

isPathConstrainedTowritablePaths(candidatePath, workdir, writableRoots) ==
    \E i \in 1..Len(writableRoots) :
        pathContains(writableRoots[i],
                     resolvePathAgainstWorkdir(candidatePath, workdir))

\* (mutation: an empty list of paths is not constrained)
allPathsConstrainedTowritablePaths_NotVacuous(candidatePaths, workdir, writableRoots) ==
    /\ candidatePaths # {}
    /\ \A c \in candidatePaths :
           isPathConstrainedTowritablePaths(c, workdir, writableRoots)

\* candidatePaths.every(...)
allPathsConstrainedTowritablePaths(candidatePaths, workdir, writableRoots) ==
    \A c \in candidatePaths :
        isPathConstrainedTowritablePaths(c, workdir, writableRoots)

----------------------------------------------------------------------------
(* The patch text reader (apply-patch.ts): the paths a patch names *)

UPDATE_FILE_PREFIX == "*** Update File: "
DELETE_FILE_PREFIX == "*** Delete File: "
ADD_FILE_PREFIX == "*** Add File: "

PatchLines(text) == Split(Trim(text), "\n")

LineSet(text) == { PatchLines(text)[i] : i \in 1..Len(PatchLines(text)) }

identify_files_needed(text) ==
    { SliceFrom(l, 1) :
        l \in { m \in LineSet(text) :
                  m # <<>> /\ m[1] \in {UPDATE_FILE_PREFIX, DELETE_FILE_PREFIX} } }

identify_files_added(text) ==
    { SliceFrom(l, 1) :
        l \in { m \in LineSet(text) : m # <<>> /\ m[1] = ADD_FILE_PREFIX } }

isWritePatchConstrainedToWritablePaths(applyPatchArg, workdir, writableRoots) ==
    /\ allPathsConstrainedTowritablePaths(
           identify_files_needed(applyPatchArg), workdir, writableRoots)
    /\ allPathsConstrainedTowritablePaths(
           identify_files_added(applyPatchArg), workdir, writableRoots)

----------------------------------------------------------------------------
(* approvals.ts: tryParseApplyPatch *)

RECURSIVE SkipWhitespace(_, _)
SkipWhitespace(s, i) ==
    IF i <= Len(s) /\ IsWhitespace(s[i]) THEN SkipWhitespace(s, i + 1) ELSE i

IsQuote(a) == a \in {"'", "\""}

\* \w+ : the heredoc delimiter word
IsWord(a) == a \in {"EOF", "END", "PATCH"}

\* first j >= i with s[j] = "\n" and s[j+1] = word, else 0
RECURSIVE FindTerminator(_, _, _)
FindTerminator(s, i, word) ==
    IF i + 1 > Len(s) THEN 0
    ELSE IF s[i] = "\n" /\ s[i + 1] = word THEN i
    ELSE FindTerminator(s, i + 1, word)

\* /^\s*<<\s*['"]?(\w+)['"]?\n([\s\S]*?)\n\1/ ; <<matched, body>>
HeredocMatch(h) ==
    LET i1 == SkipWhitespace(h, 1)
        i2 == SkipWhitespace(h, i1 + 1)
        i3 == IF i2 <= Len(h) /\ IsQuote(h[i2]) THEN i2 + 1 ELSE i2
        i4 == IF i3 + 1 <= Len(h) /\ IsQuote(h[i3 + 1]) THEN i3 + 2 ELSE i3 + 1
    IN  IF /\ i1 <= Len(h) /\ h[i1] = "<<"
           /\ i3 <= Len(h) /\ IsWord(h[i3])
           /\ i4 <= Len(h) /\ h[i4] = "\n"
           /\ FindTerminator(h, i4 + 1, h[i3]) # 0
        THEN <<TRUE, SubSeq(h, i4 + 1, FindTerminator(h, i4 + 1, h[i3]) - 1)>>
        ELSE <<FALSE, <<>>>>

\* [isApplyPatch, patch]
tryParseApplyPatch(bashArg) ==
    IF ~StartsWith(bashArg, APPLY_PATCH) THEN [found |-> FALSE, patch |-> <<>>]
    ELSE LET heredoc == SliceFrom(bashArg, Len(APPLY_PATCH))
             m == HeredocMatch(heredoc)
         IN  IF m[1] THEN [found |-> TRUE, patch |-> Trim(m[2])]
             ELSE [found |-> TRUE, patch |-> Trim(heredoc)]

----------------------------------------------------------------------------
(* approvals.ts: SafetyAssessment, canAutoApproveApplyPatch, canAutoApprove *)

AutoApprove(runInSandbox, reason, group) ==
    [type |-> "auto-approve", runInSandbox |-> runInSandbox, reason |-> reason,
     group |-> group, hasPatch |-> FALSE, patch |-> <<>>]

AskUser ==
    [type |-> "ask-user", runInSandbox |-> FALSE, reason |-> "", group |-> "",
     hasPatch |-> FALSE, patch |-> <<>>]

Reject(reason) ==
    [type |-> "reject", runInSandbox |-> FALSE, reason |-> reason, group |-> "",
     hasPatch |-> FALSE, patch |-> <<>>]

\* canAutoApprove ends by an exception instead of a verdict
Throws(what) ==
    [type |-> "throw", runInSandbox |-> FALSE, reason |-> what, group |-> "",
     hasPatch |-> FALSE, patch |-> <<>>]

WithPatch(v, patchText) == [v EXCEPT !.hasPatch = TRUE, !.patch = patchText]

\* (mutation: only none is decided upfront)
isFullAutoOrNone_NoneOnly(policy) == policy = "none"

isFullAutoOrNone(policy) == policy \in {"full-auto", "full_auto", "none"}

\* `Approval policy is '${policy}'`
PolicyReason(policy) ==
    CASE policy = "full-auto" -> "Approval policy is 'full-auto'"
      [] policy = "full_auto" -> "Approval policy is 'full_auto'"
      [] OTHER -> "Approval policy is 'none'"

\* runInSandbox of a policy-wide auto-approval
PolicySandbox(policy) == policy = "full-auto"

\* (mutation: the scope check is skipped under auto-edit)
canAutoApproveApplyPatch_NoScopeCheck(applyPatchArg, workdir, writableRoots, policy) ==
    IF policy = "suggest" THEN WithPatch(AskUser, applyPatchArg)
    ELSE WithPatch(AutoApprove(FALSE,
                               "apply_patch command is constrained to writable paths",
                               "Editing"), applyPatchArg)

canAutoApproveApplyPatch(applyPatchArg, workdir, writableRoots, policy) ==
    IF policy = "none"
    THEN WithPatch(AutoApprove(FALSE, "Approval policy is 'none' for apply_patch",
                               "Editing"), applyPatchArg)
    ELSE IF policy = "suggest" THEN WithPatch(AskUser, applyPatchArg)
    ELSE IF isWritePatchConstrainedToWritablePaths(applyPatchArg, workdir, writableRoots)
    THEN WithPatch(AutoApprove(FALSE,
                               "apply_patch command is constrained to writable paths",
                               "Editing"), applyPatchArg)
    ELSE IF policy = "full-auto"
    THEN WithPatch(AutoApprove(TRUE, "Full auto mode", "Editing"), applyPatchArg)
    ELSE WithPatch(AskUser, applyPatchArg)

\* (mutation: only a missing patch argument counts as malformed)
IsInvalidApplyPatch_OnlyMissing(command) ==
    Len(command) >= 1 /\ command[1] = APPLY_PATCH /\ Len(command) < 2

\* command[0] === "apply_patch" && command.length !== 2
IsInvalidApplyPatch(command) ==
    Len(command) >= 1 /\ command[1] = APPLY_PATCH /\ Len(command) # 2

IsBashLc(command) ==
    Len(command) = 3 /\ command[1] = BASH /\ command[2] = DASH_LC

\* (mutation: a script the evaluator finds safe is run in the sandbox)
AfterEvaluator_Sandboxed(shellSafe) ==
    IF shellSafe.ok THEN AutoApprove(TRUE, shellSafe.reason, shellSafe.group)
    ELSE AskUser

\* canAutoApprove from the evaluator's answer on: lines 179-201
AfterEvaluator(shellSafe) ==
    IF shellSafe.ok THEN AutoApprove(FALSE, shellSafe.reason, shellSafe.group)
    ELSE AskUser

\* (mutation: a script the tokenizer cannot parse is rejected)
AfterTokenizer_Reject(bashCmd) ==
    IF bashCmd.threw THEN Reject("unparsable bash command")
    ELSE AfterEvaluator(isEntireShellExpressionSafe(bashCmd.parts))

\* canAutoApprove from the tokenizer's result on: lines 151-201
AfterTokenizer(bashCmd) ==
    IF bashCmd.threw THEN AskUser
    ELSE AfterEvaluator(isEntireShellExpressionSafe(bashCmd.parts))

\* (mutation: the script goes to the tokenizer whatever it begins with)
AfterTryParseApplyPatch_TokenizerOnly(command, workdir, policy, writableRoots, applyPatchArg) ==
    AfterTokenizer(parse(command[3]))

\* canAutoApprove from tryParseApplyPatch's result on: lines 141-201
AfterTryParseApplyPatch(command, workdir, policy, writableRoots, applyPatchArg) ==
    IF applyPatchArg.found
    THEN canAutoApproveApplyPatch(applyPatchArg.patch, workdir, writableRoots, policy)
    ELSE AfterTokenizer(parse(command[3]))

\* canAutoApprove from the classifier's answer on: lines 124-201
AfterClassifier(command, workdir, policy, writableRoots, isSafe) ==
    IF isSafe = ThrownTypeError THEN Throws("TypeError")
    ELSE IF isSafe.ok THEN AutoApprove(FALSE, isSafe.reason, isSafe.group)
    ELSE IF IsBashLc(command)
    THEN AfterTryParseApplyPatch(command, workdir, policy, writableRoots,
                                 tryParseApplyPatch(command[3]))
    ELSE AskUser

\* Commands are arrays of strings, so the typeof tests of the source are
\* always satisfied; the branches the source repeats for full-auto/none after
\* its first test of isFullAutoOrNone are unreachable and left out.
canAutoApprove(command, workdir, policy, writableRoots) ==
    IF isFullAutoOrNone(policy)
    THEN IF IsInvalidApplyPatch(command) THEN Reject("Invalid apply_patch command")
         ELSE IF Len(command) >= 1 /\ command[1] = APPLY_PATCH
         THEN WithPatch(AutoApprove(PolicySandbox(policy), PolicyReason(policy),
                                    "Editing"), command[2])
         ELSE AutoApprove(PolicySandbox(policy), PolicyReason(policy),
                          "Running commands")
    ELSE IF Len(command) >= 1 /\ command[1] = APPLY_PATCH
    THEN IF Len(command) = 2
         THEN canAutoApproveApplyPatch(command[2], workdir, writableRoots, policy)
         ELSE Reject("Invalid apply_patch command")
    ELSE AfterClassifier(command, workdir, policy, writableRoots,
                         isSafeCommand(command))

----------------------------------------------------------------------------
(* Inputs of the pure-function harness *)

MaxArgv == 3

PROJ == <<"/", "home", "/", "u", "/", "proj">>
TMP == <<"/", "tmp">>

\* *** Begin Patch / *** Update File: /home/u/proj/a.ts / *** End Patch
PatchAbs ==
    <<"*** Begin Patch", "\n", UPDATE_FILE_PREFIX>> \o PROJ \o <<"/", "a.ts", "\n",
      "*** End Patch">>

\* a patch that adds the relative path b.ts
PatchRel ==
    <<"*** Begin Patch", "\n", ADD_FILE_PREFIX, "b.ts", "\n", "*** End Patch">>

\* apply_patch <<'EOF' \n <PatchRel> \n EOF
ScriptPatch ==
    <<"apply_patch", " ", "<<", "'", "EOF", "'", "\n">> \o PatchRel \o <<"\n", "EOF">>

\* apply_patch <PatchAbs>, without a heredoc
ScriptPatchRaw == <<"apply_patch", " ">> \o PatchAbs

ScriptSafe == <<"ls", " ", "&&", " ", "pwd">>

ScriptBad == <<"rm", " ", BAD_SUBSTITUTION>>

DecideTokens ==
    { APPLY_PATCH, BASH, DASH_LC, S1("pwd"), S1("rm"), S1("cat"), <<"$", "x">>,
      S1("__proto__"), PatchAbs, ScriptPatch, ScriptPatchRaw, ScriptSafe,
      ScriptBad }

RECURSIVE SeqsUpTo(_, _)
SeqsUpTo(T, n) ==
    IF n = 0 THEN {<<>>}
    ELSE LET shorter == SeqsUpTo(T, n - 1) IN
         shorter \cup { Append(s, x) : s \in { q \in shorter : Len(q) = n - 1 }, x \in T }

DecideCommands == SeqsUpTo(DecideTokens, MaxArgv)

DecideArgs ==
    [command : DecideCommands, workdir : {<<>>, TMP}, policy : Policies,
     writableRoots : {<<>>, <<PROJ>>}]

NoArgs == [command |-> <<>>, workdir |-> <<>>, policy |-> "suggest",
           writableRoots |-> <<>>]

NoVerdict ==
    [type |-> "none", runInSandbox |-> FALSE, reason |-> "", group |-> "",
     hasPatch |-> FALSE, patch |-> <<>>]

NoStep ==
    [op |-> "none", cmd |-> <<>>, policy |-> "suggest", key |-> <<>>,
     cacheHit |-> FALSE, consulted |-> FALSE, verdict |-> "none",
     runInSandbox |-> FALSE, asked |-> FALSE, answer |-> "none",
     executor |-> "none", sandbox |-> "n/a", outcome |-> "none"]

InitDecide ==
    /\ platform \in {"linux", "win32"}
    /\ sandboxExecAvailable = FALSE
    /\ allowNoSandbox = FALSE
    /\ alwaysApprovedCommands = {}
    /\ pending = <<>>
    /\ last = NoStep
    /\ pc = "input"
    /\ arg \in DecideArgs
    /\ out = NoVerdict

\* one call of canAutoApprove on the drawn arguments
Decide ==
    /\ pc = "input"
    /\ out' = canAutoApprove(arg.command, arg.workdir, arg.policy, arg.writableRoots)
    /\ pc' = "done"
    /\ UNCHANGED <<platform, sandboxExecAvailable, allowNoSandbox,
                   alwaysApprovedCommands, pending, last, arg>>

NextDecide == Decide

SpecDecide == InitDecide /\ [][NextDecide]_vars

----------------------------------------------------------------------------
(* handle-exec-command.ts: the session approval cache and handleExecCommand *)

\* cmd[2] of the source (coreInvocation); undefined is the empty string here,
\* which every test of the source treats alike (?. , ?? "" and truthiness)
CoreInvocation(cmd) == IF Len(cmd) >= 3 THEN cmd[3] ELSE <<>>

deriveCommandKey(cmd) ==
    LET coreInvocation == CoreInvocation(cmd) IN
    IF StartsWith(coreInvocation, APPLY_PATCH) THEN APPLY_PATCH
    ELSE IF Len(cmd) >= 2 /\ cmd[1] = BASH /\ cmd[2] = DASH_LC
    THEN IF SplitWsFirst(coreInvocation) # <<>>
         THEN SplitWsFirst(coreInvocation) ELSE BASH
    ELSE IF coreInvocation # <<>> THEN SplitWsFirst(coreInvocation)
    ELSE JsonStringify(cmd)

\* (mutation: the cache is never consulted)
alwaysApproved_Never(key) == FALSE

\* alwaysApprovedCommands.has(key)
alwaysApproved(key) == key \in alwaysApprovedCommands

\* (mutation: a plain YES is remembered too)
cacheAfterDecision_YesToo(cmd, decision) ==
    IF decision \in {"ALWAYS", "YES"}
    THEN alwaysApprovedCommands \cup {deriveCommandKey(cmd)}
    ELSE alwaysApprovedCommands

\* askUserPermission: the cache after the user's decision
cacheAfterDecision(cmd, decision) ==
    IF decision = "ALWAYS"
    THEN alwaysApprovedCommands \cup {deriveCommandKey(cmd)}
    ELSE alwaysApprovedCommands

ReviewDecisions == {"YES", "ALWAYS", "NO_STOP", "NO_CONTINUE", "EXPLAIN"}

\* askUserPermission returns null (go on to execute) or an "aborted" result
askUserPermissionProceeds(decision) ==
    IF decision = "EXPLAIN" THEN TRUE
    ELSE decision \in {"YES", "ALWAYS"}

\* (mutation: a missing sandbox-exec is downgraded to no sandbox)
getSandbox_Downgrade(runInSandbox) ==
    IF runInSandbox
    THEN IF platform = "darwin"
         THEN IF sandboxExecAvailable THEN "MACOS_SEATBELT" ELSE "NONE"
         ELSE IF platform = "linux" THEN "LINUX_LANDLOCK"
         ELSE IF allowNoSandbox THEN "NONE"
         ELSE "throw"
    ELSE "NONE"

\* getSandbox: the SandboxType, or "throw" for the 'sandbox mandated' errors
getSandbox(runInSandbox) ==
    IF runInSandbox
    THEN IF platform = "darwin"
         THEN IF sandboxExecAvailable THEN "MACOS_SEATBELT" ELSE "throw"
         ELSE IF platform = "linux" THEN "LINUX_LANDLOCK"
         ELSE IF allowNoSandbox THEN "NONE"
         ELSE "throw"
    ELSE "NONE"

\* execCommand: which executor runs, behind which sandbox, and how it ends.
\* The patch engine (execApplyPatch) runs in this process; everything else is
\* spawned by exec behind the sandbox getSandbox selects.
execCommand(hasApplyPatch, runInSandbox) ==
    IF hasApplyPatch
    THEN [executor |-> "execApplyPatch", sandbox |-> "in-process", outcome |-> "result"]
    ELSE IF getSandbox(runInSandbox) = "throw"
    THEN [executor |-> "none", sandbox |-> "n/a", outcome |-> "error"]
    ELSE [executor |-> "exec", sandbox |-> getSandbox(runInSandbox), outcome |-> "result"]

NotExecuted(outcome) == [executor |-> "none", sandbox |-> "n/a", outcome |-> outcome]

\* applyPatchCommandDetails != null
hasApplyPatchDetails(command, assessment) ==
    assessment.hasPatch \/ (Len(command) = 2 /\ command[1] = APPLY_PATCH)

\* runInSandboxAfterUserApproval
runInSandboxAfterUserApproval(policy) == policy = "full-auto"

Step(op, cmd, policy, cacheHit, consulted, assessment, asked, answer, run) ==
    [op |-> op, cmd |-> cmd, policy |-> policy, key |-> deriveCommandKey(cmd),
     cacheHit |-> cacheHit, consulted |-> consulted,
     verdict |-> assessment.type, runInSandbox |-> assessment.runInSandbox,
     asked |-> asked, answer |-> answer,
     executor |-> run.executor, sandbox |-> run.sandbox, outcome |-> run.outcome]

----------------------------------------------------------------------------
(* The session: calls of handleExecCommand, interleaved at the one point    *)
(* where the handler waits for the user (getCommandConfirmation)           *)

MaxPending == 1

\* a patch whose only path leaves the writable root through ".."
PatchEscape ==
    <<"*** Begin Patch", "\n", UPDATE_FILE_PREFIX>> \o PROJ
      \o <<"/", "..", "/", "..", "/", "etc", "/", "passwd", "\n", "*** End Patch">>

SessionCommands ==
    { <<S1("rm"), <<"-", "rf">>, S1("x")>>,
      <<S1("chmod"), S1("777"), S1("x")>>,
      <<S1("pwd")>>,
      <<APPLY_PATCH, PatchEscape>>,
      <<APPLY_PATCH, PatchEscape, S1("x")>>,
      <<BASH, DASH_LC, ScriptPatch>>,
      <<BASH, DASH_LC, <<"rm", " ", "-", "rf", " ", "x">>>> }

\* the session's additionalWritableRoots; the working directory is process.cwd()
SessionRoots == <<PROJ>>

\* sandboxExecAvailable is read on darwin only, allowNoSandbox on neither
\* darwin nor linux: the other combinations behave like one of these
SessionEnvironments ==
    { <<"linux", FALSE, FALSE>>, <<"darwin", TRUE, FALSE>>, <<"darwin", FALSE, FALSE>>,
      <<"win32", FALSE, TRUE>>, <<"win32", FALSE, FALSE>> }

Init ==
    /\ \E e \in SessionEnvironments :
           /\ platform = e[1]
           /\ sandboxExecAvailable = e[2]
           /\ allowNoSandbox = e[3]
    /\ alwaysApprovedCommands = {}
    /\ pending = <<>>
    /\ last = NoStep
    /\ pc = "session"
    /\ arg = NoArgs
    /\ out = NoVerdict

RemoveAt(s, i) == SubSeq(s, 1, i - 1) \o SubSeq(s, i + 1, Len(s))

\* handleExecCommand from canAutoApprove's assessment on (step 3 of the source)
OnAssessment(command, policy, assessment) ==
    IF assessment.type = "auto-approve"
    THEN /\ last' = Step("start", command, policy, FALSE, TRUE, assessment,
                         FALSE, "none",
                         execCommand(hasApplyPatchDetails(command, assessment),
                                     assessment.runInSandbox))
         /\ UNCHANGED pending
    ELSE IF assessment.type = "reject"
    THEN /\ last' = Step("start", command, policy, FALSE, TRUE, assessment,
                         FALSE, "none", NotExecuted("rejected"))
         /\ UNCHANGED pending
    ELSE IF assessment.type = "throw"
    THEN /\ last' = Step("start", command, policy, FALSE, TRUE, assessment,
                         FALSE, "none", NotExecuted("error"))
         /\ UNCHANGED pending
    ELSE /\ Len(pending) < MaxPending
         /\ pending' = Append(pending,
                [cmd |-> command, policy |-> policy,
                 hasPatch |-> hasApplyPatchDetails(command, assessment)])
         /\ last' = Step("start", command, policy, FALSE, TRUE, assessment,
                         TRUE, "pending", NotExecuted("pending"))

\* handleExecCommand up to its return or, for an ask-user verdict, up to the
\* await of getCommandConfirmation
HandleExecCommand(command, policy, additionalWritableRoots) ==
    /\ pc = "session"
    /\ IF alwaysApproved(deriveCommandKey(command))
       THEN /\ last' = Step("start", command, policy, TRUE, FALSE, NoVerdict,
                            FALSE, "none", execCommand(FALSE, FALSE))
            /\ UNCHANGED pending
       ELSE OnAssessment(command, policy,
                         canAutoApprove(command, <<>>, policy, additionalWritableRoots))
    /\ UNCHANGED <<platform, sandboxExecAvailable, allowNoSandbox,
                   alwaysApprovedCommands, pc, arg, out>>

\* getCommandConfirmation resolves for the i-th waiting call: the rest of
\* askUserPermission and of handleExecCommand
ConfirmationArrives(i, decision) ==
    /\ pc = "session"
    /\ i \in 1..Len(pending)
    /\ alwaysApprovedCommands' = cacheAfterDecision(pending[i].cmd, decision)
    /\ pending' = RemoveAt(pending, i)
    /\ last' = Step("answer", pending[i].cmd, pending[i].policy, FALSE, TRUE, AskUser,
                    TRUE, decision,
                    IF askUserPermissionProceeds(decision)
                    THEN execCommand(pending[i].hasPatch,
                                     runInSandboxAfterUserApproval(pending[i].policy))
                    ELSE NotExecuted("aborted"))
    /\ UNCHANGED <<platform, sandboxExecAvailable, allowNoSandbox, pc, arg, out>>

Next ==
    \/ \E c \in SessionCommands, p \in Policies :
           HandleExecCommand(c, p, SessionRoots)
    \/ \E i \in 1..MaxPending, d \in ReviewDecisions : ConfirmationArrives(i, d)

Spec == Init /\ [][Next]_vars

----------------------------------------------------------------------------
(* Properties of canAutoApprove, checked under SpecDecide *)

\* first token apply_patch with a token count other than two
MalformedApplyPatch(c) == Len(c) >= 1 /\ c[1] = APPLY_PATCH /\ Len(c) # 2

\* a direct apply_patch invocation, or a bash -lc script that begins with it
ApplyPatchCall(c) ==
    \/ Len(c) >= 1 /\ c[1] = APPLY_PATCH
    \/ IsBashLc(c) /\ StartsWith(c[3], APPLY_PATCH)

\* the patch text of a well-formed apply-patch call
PatchTextOf(c) ==
    IF c[1] = APPLY_PATCH THEN c[2] ELSE tryParseApplyPatch(c[3]).patch

WellFormedApplyPatchCall(c) == ApplyPatchCall(c) /\ ~MalformedApplyPatch(c)

\* C3 (as claimed): every full-auto spelling auto-approves with runInSandbox =
\* TRUE whatever the command, unless it is a malformed apply_patch; policy
\* none auto-approves with runInSandbox = FALSE.
C3_FullAutoSpellingsSandboxed ==
    (pc = "done" /\ ~MalformedApplyPatch(arg.command)) =>
        /\ arg.policy \in {"full-auto", "full_auto"} =>
              (out.type = "auto-approve" /\ out.runInSandbox)
        /\ arg.policy = "none" =>
              (out.type = "auto-approve" /\ ~out.runInSandbox)

\* C5: canAutoApprove returns Reject exactly for the commands whose first
\* token is apply_patch and whose token count is not two, under every policy.
C5_RejectIffMalformedApplyPatch ==
    pc = "done" => (out.type = "reject" <=> MalformedApplyPatch(arg.command))

C5_Witness ==
    /\ pc = "done"
    /\ out.type = "reject"
    /\ arg.policy = "suggest"
    /\ Len(arg.command) = 3

\* what C9 calls acceptance: the classifier accepts the command, or the
\* command is bash -lc <script> and the tokenized script passes the evaluator
AcceptedUnderSuggest(c) ==
    \/ isSafeCommand(c).ok
    \/ /\ IsBashLc(c)
       /\ ~parse(c[3]).threw
       /\ isEntireShellExpressionSafe(parse(c[3]).parts).ok

\* C9 (as claimed): under suggest a command that is not an apply-patch call
\* is auto-approved without sandbox when accepted and yields AskUser in
\* every other case.
C9_SuggestAutoApproveOrAsk ==
    (pc = "done" /\ arg.policy = "suggest" /\ ~ApplyPatchCall(arg.command)) =>
        IF AcceptedUnderSuggest(arg.command)
        THEN out.type = "auto-approve" /\ ~out.runInSandbox
        ELSE out.type = "ask-user"

----------------------------------------------------------------------------
(* Properties of handleExecCommand and the approval cache, checked under Spec *)

\* an execution was started: exec or execApplyPatch was called
Executed == last.executor \in {"exec", "execApplyPatch"}

\* a command that is neither `bash -lc <script>` nor an apply_patch call
PlainCommand(c) ==
    /\ Len(c) >= 1
    /\ ~(Len(c) >= 2 /\ c[1] = BASH /\ c[2] = DASH_LC)
    /\ c[1] # APPLY_PATCH

\* C1 (as claimed): no execution is started for a Reject verdict, nor for an
\* AskUser verdict unless the user's answer is YES or ALWAYS; NO_STOP,
\* NO_CONTINUE and EXPLAIN leave the command unexecuted.
C1_NoExecutionUnlessApproved ==
    /\ last.verdict = "reject" => ~Executed
    /\ (last.verdict = "ask-user" /\ last.answer \notin {"YES", "ALWAYS"}) => ~Executed

\* C2 (as claimed): an execution after an AutoApprove verdict with
\* runInSandbox = TRUE goes through seatbelt or landlock, or runs unsandboxed
\* only with the opt-out flag set, or fails with an error; apply-patch
\* commands included.
C2_SandboxedVerdictRunsSandboxed ==
    (last.op = "start" /\ last.verdict = "auto-approve" /\ last.runInSandbox) =>
        \/ last.sandbox \in {"MACOS_SEATBELT", "LINUX_LANDLOCK"}
        \/ last.sandbox = "NONE" /\ allowNoSandbox
        \/ last.outcome = "error"

\* C4 (as claimed): a malformed apply_patch invocation is never executed;
\* whatever the policy and the cache, the outcome is a rejection.
C4_MalformedApplyPatchNeverExecuted ==
    (last.op = "start" /\ MalformedApplyPatch(last.cmd)) =>
        (last.outcome = "rejected" /\ ~Executed)

\* C6: a call whose command derives a key that is in the approval cache is
\* executed by exec without consulting canAutoApprove, without asking the
\* user and without a sandbox, whatever the policy.
C6_CachedKeySkipsChecks ==
    (last.op = "start" /\ deriveCommandKey(last.cmd) \in alwaysApprovedCommands) =>
        /\ ~last.consulted /\ last.verdict = "none"
        /\ ~last.asked
        /\ last.executor = "exec" /\ last.sandbox = "NONE"

C6_Witness ==
    /\ last.op = "start"
    /\ deriveCommandKey(last.cmd) \in alwaysApprovedCommands
    /\ last.policy = "full-auto"
    /\ platform = "win32" /\ ~allowNoSandbox
    /\ last.executor = "exec"

\* C7: the approval cache is empty at start, never loses a key, and gains a
\* key only in the step where the user answers ALWAYS, namely the key of the
\* command that was asked about.
C7_CacheGrowsOnlyOnAlways ==
    /\ alwaysApprovedCommands = {}
    /\ [][/\ alwaysApprovedCommands \subseteq alwaysApprovedCommands'
          /\ alwaysApprovedCommands' # alwaysApprovedCommands =>
                /\ last'.op = "answer" /\ last'.answer = "ALWAYS"
                /\ alwaysApprovedCommands' =
                       alwaysApprovedCommands \cup {deriveCommandKey(last'.cmd)}]_vars

C7_Witness ==
    /\ last.op = "answer" /\ last.answer = "ALWAYS"
    /\ Cardinality(alwaysApprovedCommands) = 2

\* C8 (as claimed): for a command that is neither bash -lc nor an apply_patch
\* call the derived key is the program name, the first argv element.
C8_KeyIsProgramName ==
    (last.op = "start" /\ PlainCommand(last.cmd)) => last.key = last.cmd[1]

\* the executor handleExecCommand uses for a command approved by a fresh
\* verdict or by the user: the patch engine when applyPatchCommandDetails is
\* set, else a spawned process
ExecutorWhenApprovedFresh(command, policy) ==
    IF hasApplyPatchDetails(command,
                            canAutoApprove(command, <<>>, policy, SessionRoots))
    THEN "execApplyPatch" ELSE "exec"

\* C37: the executor that runs an approved command (the in-process patch
\* engine for an apply-patch call, a spawned process otherwise) is the same
\* when the approval comes from the session cache as when it comes from a
\* fresh verdict or from the user.
C37_SameExecutorFromCache ==
    (last.cacheHit /\ last.executor # "none") =>
        last.executor = ExecutorWhenApprovedFresh(last.cmd, last.policy)

\* C32: every apply_patch invocation, given directly as ["apply_patch", patch]
\* or wrapped as `bash -lc "apply_patch ..."`, derives the key "apply_patch"
\* whatever its patch text, so a call of either form is served from the
\* cache once the key of an apply_patch invocation is in it.
C32_ApplyPatchKeyIgnoresPatch ==
    (last.op = "start" /\ WellFormedApplyPatchCall(last.cmd)) =>
        /\ last.key = APPLY_PATCH
        /\ APPLY_PATCH \in alwaysApprovedCommands => last.cacheHit

\* the step is a call of handleExecCommand under full-auto or none
CallUnderFullAutoOrNone ==
    last'.op = "start" /\ last'.policy \in {"full-auto", "none"}

\* C40: a call of handleExecCommand under full-auto or none never gets
\* ask-user from canAutoApprove, never calls the confirmation callback and
\* leaves the session's approval cache as it was.
C40_NoPromptNoCacheChange ==
    [][CallUnderFullAutoOrNone =>
           /\ last'.verdict # "ask-user"
           /\ ~last'.asked
           /\ pending' = pending
           /\ alwaysApprovedCommands' = alwaysApprovedCommands]_vars

\* a command that is asked about under suggest is called under full-auto
\* while the cache holds a key and another call waits for its answer
C40_Witness ==
    /\ last.op = "start"
    /\ last.policy = "full-auto"
    /\ last.cmd = <<S1("rm"), <<"-", "rf">>, S1("x")>>
    /\ last.consulted
    /\ last.verdict = "auto-approve"
    /\ alwaysApprovedCommands # {}
    /\ pending # <<>>

\* the runInSandbox argument of the step's call of execCommand
Mandated ==
    IF last.op = "answer" THEN runInSandboxAfterUserApproval(last.policy)
    ELSE IF last.cacheHit THEN FALSE
    ELSE last.runInSandbox

\* the step called getSandbox: it went on to exec, or getSandbox threw
GetSandboxCalled ==
    \/ last.executor = "exec"
    \/ last.outcome = "error" /\ last.verdict # "throw"

\* what getSandbox did: the sandbox exec ran behind, or "throw"
Selected == IF last.executor = "exec" THEN last.sandbox ELSE "throw"

\* C27: with a sandbox mandated getSandbox selects seatbelt on macOS only if
\* sandbox-exec is present and executable and throws otherwise, selects
\* landlock on Linux, and elsewhere selects no sandbox only with the opt-out
\* flag and throws otherwise; with no sandbox mandated it selects no sandbox.
C27_SandboxSelection ==
    GetSandboxCalled =>
        IF ~Mandated THEN Selected = "NONE"
        ELSE /\ platform = "darwin" =>
                    Selected = IF sandboxExecAvailable THEN "MACOS_SEATBELT"
                               ELSE "throw"
             /\ platform = "linux" => Selected = "LINUX_LANDLOCK"
             /\ platform \notin {"darwin", "linux"} =>
                    Selected = IF allowNoSandbox THEN "NONE" ELSE "throw"

\* a mandated sandbox was missing on macOS and the command was not executed
C27_Witness ==
    /\ GetSandboxCalled
    /\ Mandated
    /\ platform = "darwin"
    /\ ~sandboxExecAvailable
    /\ last.outcome = "error"
    /\ ~Executed

----------------------------------------------------------------------------
(* Further properties of canAutoApprove, checked under SpecDecide *)

\* C11 (as claimed): under full-auto a well-formed apply-patch call whose
\* paths are all inside the writable roots is auto-approved with runInSandbox
\* = FALSE and the reason that it is constrained to writable paths; only an
\* out-of-scope patch is auto-approved with runInSandbox = TRUE.
C11_FullAutoPatchInScopeUnsandboxed ==
    (/\ pc = "done"
     /\ arg.policy = "full-auto"
     /\ WellFormedApplyPatchCall(arg.command)) =>
        /\ out.type = "auto-approve"
        /\ IF isWritePatchConstrainedToWritablePaths(
                  PatchTextOf(arg.command), arg.workdir, arg.writableRoots)
           THEN /\ ~out.runInSandbox
                /\ out.reason = "apply_patch command is constrained to writable paths"
           ELSE out.runInSandbox

\* the command is `bash -lc <script>` and shell-quote's parse throws on the
\* script
UnparsableScript(command) == IsBashLc(command) /\ parse(command[3]).threw

\* canAutoApprove hands the script to the tokenizer: the classifier declined
\* the command and the script does not begin with apply_patch
TokenizerCalled(command, policy) ==
    /\ ~isFullAutoOrNone(policy)
    /\ IsBashLc(command)
    /\ ~isSafeCommand(command).ok
    /\ ~tryParseApplyPatch(command[3]).found

\* C28: when the tokenizer throws on the script of `bash -lc <script>` under
\* suggest or auto-edit, canAutoApprove returns ask-user; an unparsable script
\* is under no policy rejected and never ends canAutoApprove by an exception.
C28_TokenizerFailureAsksUser ==
    (pc = "done" /\ UnparsableScript(arg.command)) =>
        /\ TokenizerCalled(arg.command, arg.policy) => out = AskUser
        /\ out.type \notin {"reject", "throw"}

\* the tokenizer threw on `rm ${` under auto-edit and the user is asked
C28_Witness ==
    /\ pc = "done"
    /\ arg.policy = "auto-edit"
    /\ arg.command = <<BASH, DASH_LC, ScriptBad>>
    /\ TokenizerCalled(arg.command, arg.policy)
    /\ parse(ScriptBad).threw
    /\ out.type = "ask-user"

\* a `bash -lc <script>` whose script begins with apply_patch
ApplyPatchScript(c) == IsBashLc(c) /\ StartsWith(c[3], APPLY_PATCH)

\* C31: under suggest and auto-edit a `bash -lc <script>` whose script begins
\* with apply_patch gets the verdict of the patch sub-decision for the
\* extracted patch body (the heredoc's body, else the trimmed remainder) and
\* never that of the shell-expression evaluator, so it is auto-approved only
\* through the writable-roots check.
C31_PatchScriptTakesPatchDecision ==
    (/\ pc = "done"
     /\ arg.policy \in {"suggest", "auto-edit"}
     /\ ApplyPatchScript(arg.command)) =>
        /\ out = canAutoApproveApplyPatch(PatchTextOf(arg.command), arg.workdir,
                                          arg.writableRoots, arg.policy)
        /\ out.type = "auto-approve" =>
               /\ arg.policy = "auto-edit"
               /\ isWritePatchConstrainedToWritablePaths(
                      PatchTextOf(arg.command), arg.workdir, arg.writableRoots)

\* a script without heredoc is auto-approved under auto-edit for the patch
\* that follows apply_patch, whose path is inside the writable root
C31_Witness ==
    /\ pc = "done"
    /\ arg.policy = "auto-edit"
    /\ arg.command = <<BASH, DASH_LC, ScriptPatchRaw>>
    /\ arg.writableRoots = <<PROJ>>
    /\ out.type = "auto-approve"
    /\ out.hasPatch
    /\ out.patch = PatchAbs

\* C39: under suggest and auto-edit every auto-approve verdict of
\* canAutoApprove has runInSandbox = FALSE; an auto-approve verdict with
\* runInSandbox = TRUE is returned under full-auto only.
C39_SandboxedApprovalOnlyFullAuto ==
    (pc = "done" /\ out.type = "auto-approve") =>
        /\ arg.policy \in {"suggest", "auto-edit"} => ~out.runInSandbox
        /\ out.runInSandbox => arg.policy = "full-auto"

\* a safe script is auto-approved under auto-edit, without sandbox
C39_Witness ==
    /\ pc = "done"
    /\ arg.policy = "auto-edit"
    /\ IsBashLc(arg.command)
    /\ ~ApplyPatchScript(arg.command)
    /\ out.type = "auto-approve"
    /\ ~out.runInSandbox

\* C29: in every auto-approve or ask-user verdict of canAutoApprove the patch
\* payload is present exactly when the command is an apply-patch call, a
\* direct ["apply_patch", patch] or a `bash -lc` script that begins with
\* apply_patch, under every policy.
C29_PatchPayloadIffApplyPatch ==
    (pc = "done" /\ out.type \in {"auto-approve", "ask-user"}) =>
        (out.hasPatch <=> WellFormedApplyPatchCall(arg.command))

----------------------------------------------------------------------------
(* Inputs of the classifier harness: one call of isSafeCommand *)

MaxArgs == 3

\* program names without an argument grammar of their own, in the spellings
\* the classifier distinguishes
GenericPrograms ==
    { S1("ls"), S1("LS"), S1("cat"), S1("grep"), S1("head"), S1("tail"), S1("wc"),
      S1("which"), S1("rg"), S1("nl"), S1("cd"), S1("pwd"), S1("echo"),
      S1("rm"), S1("chmod"), S1("PowerShell"), S1("pwsh"),
      S1("constructor"), S1("__proto__"), EmptyStr,
      <<"'", "dir", " ", ">", " ", "out.txt", "'">> }

GenericArgs ==
    { S1("f.txt"), <<"-", "l">>, <<"$", "x">>, <<"f", BACKTICK, "x", BACKTICK>> }

GitArgs ==
    { S1("status"), S1("Status"), S1("diff"), S1("log"), S1("show"),
      <<"rev", "-", "parse">>, S1("branch"), S1("tag"), S1("push"),
      S1("shortlog"), S1("apply"), <<"shortlog", " ", "-", "s", " ", "-", "n">>,
      <<"-", "s">>, <<"-", "n">>, <<"-", "D">>, S1("x"),
      <<"-", "-", "check">>, <<"-", "-", "stat">> }

SedArgs ==
    { <<"-", "n">>, <<"-", "N">>, <<"-", "e">>, <<"5", "p">>, <<"1", ",", "5", "p">>, S1("5"),
      S1("p"), <<",", "5", "p">>, <<"5", ",", "p">>, <<"5", "p", "p">>,
      <<"s", "/", "a", "/", "b", "/", "e">>, S1("f.txt") }

FindArgs ==
    UNSAFE_OPTIONS_FOR_FIND_COMMAND \cup { S1("."), <<"-", "name">>, S1("*.ts") }

WindowsPrograms == { S1("dir"), S1("DIR"), S1("type"), S1("start"), S1("cmd") }

WindowsArgs ==
    { <<"/", "c">>, S1("dir"), S1(">"), S1(">>"), S1("out.txt"), <<"/", "b">>,
      <<"/", "x">>, <<"-", "x">>, S1("notepad"), S1("explorer"), S1(".") }

\* a family of commands: one of the prefixes followed by up to n of the args
Family(prefixes, args, n) == [prefixes |-> prefixes, args |-> args, n |-> n]

\* the families of commands with up to n arguments, the empty command first
ClassifyFamilies(n) ==
    { Family({<<>>}, {}, 0),
      Family({ <<p>> : p \in GenericPrograms }, GenericArgs, n),
      Family({ <<S1("git")>>, <<S1("GIT")>> }, GitArgs, n),
      Family({ <<S1("sed")>> }, SedArgs, n),
      Family({ <<S1("find")>> }, FindArgs, n),
      Family({ <<p>> : p \in WindowsPrograms }, WindowsArgs, n),
      Family({ <<S1("cmd"), <<"/", "c">>>> }, WindowsArgs, n) }

InitClassify ==
    /\ platform \in Platforms
    /\ sandboxExecAvailable = FALSE
    /\ allowNoSandbox = FALSE
    /\ alwaysApprovedCommands = {}
    /\ pending = <<>>
    /\ last = NoStep
    /\ pc = "input"
    /\ \E f \in ClassifyFamilies(MaxArgs) :
         \E p \in f.prefixes, a \in SeqsUpTo(f.args, f.n) :
           arg = [command |-> p \o a, workdir |-> <<>>, policy |-> "suggest",
                  writableRoots |-> <<>>]
    /\ out = NotSafe

\* one call of isSafeCommand on the drawn command
Classify ==
    /\ pc = "input"
    /\ out' = isSafeCommand(arg.command)
    /\ pc' = "done"
    /\ UNCHANGED <<platform, sandboxExecAvailable, allowNoSandbox,
                   alwaysApprovedCommands, pending, last, arg>>

NextClassify == Classify

SpecClassify == InitClassify /\ [][NextClassify]_vars

----------------------------------------------------------------------------
(* Properties of isSafeCommand, checked under SpecClassify *)

\* the keys of the static rule table
TableKeys ==
    { S1("cd"), S1("ls"), S1("dir"), S1("pwd"), S1("true"), S1("false"),
      S1("echo"), S1("cat"), S1("nl"), S1("clear"), S1("grep"), S1("head"),
      S1("tail"), S1("which"), S1("git"), S1("cargo"), S1("sed"), S1("start"),
      S1("cmd"), S1("find"), S1("rg"), S1("wc"), S1("type") }

\* the call returned a justification (a non-null value)
Accepted == pc = "done" /\ out.ok

\* the call returned null
ReturnedNothing == pc = "done" /\ out = NotSafe

\* C12 (as claimed): a justification is returned only through the rule table
\* keyed by the lower-cased first token; the empty command and every command
\* whose lower-cased first token has no rule get nothing.
C12_OnlyTableRulesJustify ==
    (/\ pc = "done"
     /\ \/ arg.command = <<>>
        \/ ToLowerCase(arg.command[1]) \notin TableKeys) => ReturnedNothing

\* a git invocation: the first token lower-cases to git
IsGit(c) == Len(c) >= 1 /\ ToLowerCase(c[1]) = S1("git")

\* some token after the subcommand starts with '-'
HasDashArgument(c) == \E i \in 3..Len(c) : StartsWith(c[i], S1("-"))

\* the git invocations C13 lists as acceptable
GitAllowListed(c) ==
    /\ Len(c) >= 2
    /\ LET sub == ToLowerCase(c[2]) IN
       \/ sub \in {S1("status"), S1("diff"), S1("log"), S1("show"),
                   <<"rev", "-", "parse">>}
       \/ sub \in {S1("branch"), S1("tag")} /\ ~HasDashArgument(c)
       \/ sub = S1("shortlog") /\ Len(c) >= 4
             /\ c[3] = <<"-", "s">> /\ c[4] = <<"-", "n">>
       \/ sub = S1("apply")
             /\ (\E i \in 3..Len(c) : c[i] = <<"-", "-", "check">>)
             /\ (\E i \in 3..Len(c) : c[i] = <<"-", "-", "stat">>)

\* C13 (as claimed): a git command is accepted only for the subcommands
\* status, diff, log, show, rev-parse, branch or tag without flags, shortlog
\* -s -n, and apply with --check and --stat; every other git invocation,
\* in particular branch or tag followed by an argument starting with '-',
\* returns nothing.
C13_GitAllowList ==
    (pc = "done" /\ IsGit(arg.command)) =>
        (Accepted <=> GitAllowListed(arg.command))

\* the search/view programs C14 names
SearchViewPrograms ==
    { S1("ls"), S1("cat"), S1("grep"), S1("head"), S1("tail"), S1("wc"),
      S1("which"), S1("rg"), S1("nl") }

\* C14 (as claimed): for ls, cat, grep, head, tail, wc, which, rg and nl the
\* classifier returns nothing whenever an argument after the program name
\* contains a backtick or a '$', and a justification otherwise.
C14_MetacharactersDecline ==
    (/\ pc = "done"
     /\ arg.command # <<>>
     /\ ToLowerCase(arg.command[1]) \in SearchViewPrograms) =>
        IF HasShellMeta(arg.command) THEN ReturnedNothing ELSE Accepted

\* a sed invocation: the first token lower-cases to sed
IsSed(c) == Len(c) >= 1 /\ ToLowerCase(c[1]) = S1("sed")

\* one or two decimal digits, as the inputs spell numbers
DecimalNumbers ==
    { n \in SeqsUpTo({"0", "1", "5", "10", "20"}, 2) : n # <<>> }

\* <number>p or <number>,<number>p
SedPrintRange(a) ==
    \E n \in DecimalNumbers :
        \/ a = n \o <<"p">>
        \/ \E m \in DecimalNumbers : a = n \o <<",">> \o m \o <<"p">>

IsFind(c) == Len(c) >= 1 /\ ToLowerCase(c[1]) = S1("find")

\* the options C16 lists
SideEffectFindOptions ==
    { <<"-", o>> : o \in {"exec", "execdir", "ok", "okdir", "delete", "fls",
                          "fprint", "fprint0", "fprintf"} }

\* C16: a find command is accepted if and only if none of its tokens is one
\* of -exec, -execdir, -ok, -okdir, -delete, -fls, -fprint, -fprint0,
\* -fprintf, at whatever position.
C16_FindSideEffectOptions ==
    (pc = "done" /\ IsFind(arg.command)) =>
        IF \E i \in 1..Len(arg.command) : arg.command[i] \in SideEffectFindOptions
        THEN ReturnedNothing ELSE Accepted

C16_Witness ==
    /\ ReturnedNothing
    /\ IsFind(arg.command)
    /\ Len(arg.command) = 4
    /\ arg.command[2] = S1(".")
    /\ arg.command[3] = <<"-", "name">>
    /\ arg.command[4] = <<"-", "delete">>

\* the over-quoted single-string command 'dir > <file>'
OverQuotedDirRedirect(c) ==
    /\ Len(c) = 1
    /\ StartsWith(c[1], <<"'", "dir", " ", ">", " ">>)
    /\ EndsWith(c[1], S1("'"))

\* C17 (as claimed): on a platform other than Windows the classifier returns
\* nothing for every command whose program is dir, type, start or cmd and
\* for the over-quoted single-string command 'dir > file.txt'; it never
\* returns a Windows-rule justification there.
C17_WindowsRulesOnlyOnWindows ==
    (/\ pc = "done"
     /\ platform # "win32"
     /\ arg.command # <<>>
     /\ \/ ToLowerCase(arg.command[1]) \in {S1("dir"), S1("type"), S1("start"), S1("cmd")}
        \/ OverQuotedDirRedirect(arg.command)) =>
        ReturnedNothing

----------------------------------------------------------------------------
(* Inputs of the evaluator harness: one call of isEntireShellExpressionSafe *)

MaxParts == 4

\* entries as the tokenizer delivers them: literal strings and operators
EvaluatorEntries ==
    { StrEntry(S1("ls")), StrEntry(S1("rm")), StrEntry(S1("f.txt")),
      StrEntry(S1("__proto__")), StrEntry(S1("(")), StrEntry(S1("}")),
      OpEntry("&&"), OpEntry("||"), OpEntry("|"), OpEntry(";"),
      OpEntry(">"), OpEntry("glob") }

InitEvaluate ==
    /\ platform = "linux"
    /\ sandboxExecAvailable = FALSE
    /\ allowNoSandbox = FALSE
    /\ alwaysApprovedCommands = {}
    /\ pending = <<>>
    /\ last = NoStep
    /\ pc = "input"
    /\ \E p \in SeqsUpTo(EvaluatorEntries, MaxParts) : arg = [parts |-> p]
    /\ out = NotSafe

\* one call of isEntireShellExpressionSafe on the drawn entries
Evaluate ==
    /\ pc = "input"
    /\ out' = isEntireShellExpressionSafe(arg.parts)
    /\ pc' = "done"
    /\ UNCHANGED <<platform, sandboxExecAvailable, allowNoSandbox,
                   alwaysApprovedCommands, pending, last, arg>>

NextEvaluate == Evaluate

SpecEvaluate == InitEvaluate /\ [][NextEvaluate]_vars

----------------------------------------------------------------------------
(* Properties of isEntireShellExpressionSafe, checked under SpecEvaluate *)

IsStr(parts, i) == parts[i].kind = "str"

\* i..j is a command segment of parts: a maximal run of literal strings
IsSegment(parts, i, j) ==
    /\ i <= j
    /\ \A k \in i..j : IsStr(parts, k)
    /\ i = 1 \/ ~IsStr(parts, i - 1)
    /\ j = Len(parts) \/ ~IsStr(parts, j + 1)

SegmentWords(parts, i, j) == [k \in 1..(j - i + 1) |-> parts[i + k - 1].val]

\* every operator entry is one of && || | ; (no redirection, no other operator)
OnlyJoiningOperators(parts) ==
    \A i \in 1..Len(parts) :
        IsStr(parts, i) \/ parts[i].val[1] \in {"&&", "||", "|", ";"}

\* no literal token ( ) { }
NoGroupingToken(parts) ==
    \A i \in 1..Len(parts) :
        IsStr(parts, i) => parts[i].val \notin {S1("("), S1(")"), S1("{"), S1("}")}

\* the classifier accepts every command segment
EverySegmentAccepted(parts) ==
    \A i, j \in 1..Len(parts) :
        IsSegment(parts, i, j) => isSafeCommand(SegmentWords(parts, i, j)).ok

\* C18: the evaluator succeeds for every sequence made only of
\* classifier-accepted command segments joined by operators from
\* {&&, ||, |, ;}, and returns nothing as soon as the sequence contains, at
\* any position, a segment the classifier does not accept, a token ( ) { },
\* a redirection or any other operator.
C18_CompoundExpressionSafety ==
    (pc = "done" /\ \E i \in 1..Len(arg.parts) : IsStr(arg.parts, i)) =>
        IF /\ OnlyJoiningOperators(arg.parts)
           /\ NoGroupingToken(arg.parts)
           /\ EverySegmentAccepted(arg.parts)
        THEN out.ok
        ELSE out = NotSafe

C18_Witness ==
    /\ pc = "done"
    /\ out = NotSafe
    /\ arg.parts = <<StrEntry(S1("ls")), StrEntry(S1("f.txt")), OpEntry("|"),
                     StrEntry(S1("rm"))>>

----------------------------------------------------------------------------
(* Inputs of the scope harness: one call of                                 *)
(* isWritePatchConstrainedToWritablePaths                                   *)

\* the paths one patch names, over both of its lists
MaxPaths == 3

\* /home/u/proj-evil/a.ts: the root's name is a string prefix of a sibling's
PathSibling == PROJ \o <<"-evil", "/", "a.ts">>

\* /home/u/proj/../../etc/passwd
PathEscaping == PROJ \o <<"/", "..", "/", "..", "/", "etc", "/", "passwd">>

\* /home/u/proj/..cache: a file below the root whose name begins with two dots
PathDotDotName == PROJ \o <<"/", "..", "cache">>

ScopePaths ==
    { PROJ \o <<"/", "a.ts">>, PathSibling, PathEscaping, PathDotDotName, PROJ,
      S1("b.ts"), <<"src", "/", "..", "/", "c.ts">>, <<"..", "/", "x">>,
      TMP \o <<"/", "t">> }

PathSets == { s \in SUBSET ScopePaths : Cardinality(s) <= MaxPaths }

RECURSIVE FileLines(_, _)
\* one patch line per path of the set, each with the given prefix
FileLines(prefix, paths) ==
    IF paths = {} THEN <<>>
    ELSE LET q == CHOOSE x \in paths : TRUE
         IN  <<prefix>> \o q \o <<"\n">> \o FileLines(prefix, paths \ {q})

\* the text of a patch that updates the files needed and adds the files added
PatchText(needed, added) ==
    <<"*** Begin Patch", "\n">> \o FileLines(UPDATE_FILE_PREFIX, needed)
        \o FileLines(ADD_FILE_PREFIX, added) \o <<"*** End Patch">>

InitScope ==
    /\ platform = "linux"
    /\ sandboxExecAvailable = FALSE
    /\ allowNoSandbox = FALSE
    /\ alwaysApprovedCommands = {}
    /\ pending = <<>>
    /\ last = NoStep
    /\ pc = "input"
    /\ \E n \in PathSets, a \in PathSets, w \in {<<>>, PROJ, TMP},
          r \in {<<>>, <<PROJ>>, <<TMP, PROJ>>} :
           /\ Cardinality(n) + Cardinality(a) <= MaxPaths
           /\ arg = [needed |-> n, added |-> a, patch |-> PatchText(n, a),
                     workdir |-> w, writableRoots |-> r]
    /\ out = FALSE

\* one call of isWritePatchConstrainedToWritablePaths on the drawn patch
CheckScope ==
    /\ pc = "input"
    /\ out' = isWritePatchConstrainedToWritablePaths(
                  arg.patch, arg.workdir, arg.writableRoots)
    /\ pc' = "done"
    /\ UNCHANGED <<platform, sandboxExecAvailable, allowNoSandbox,
                   alwaysApprovedCommands, pending, last, arg>>

NextScope == CheckScope

SpecScope == InitScope /\ [][NextScope]_vars

----------------------------------------------------------------------------
(* Properties of the patch scope check, checked under SpecScope *)

\* the non-empty segments of a path
RECURSIVE NonEmpty(_)
NonEmpty(segs) ==
    IF segs = <<>> THEN <<>>
    ELSE IF segs[1] = <<>> THEN NonEmpty(Tail(segs))
    ELSE <<segs[1]>> \o NonEmpty(Tail(segs))

SegmentsOf(p) == NonEmpty(Split(p, "/"))

\* child lies strictly below root, counted in whole path segments
StrictlyBelow(root, child) ==
    LET r == SegmentsOf(root) c == SegmentsOf(child) IN
    /\ Len(c) > Len(r)
    /\ SubSeq(c, 1, Len(r)) = r

\* the path, with '..' collapsed and resolved against the working
\* directory, lies strictly below at least one writable root
InScope(p, workdir, writableRoots) ==
    \E i \in 1..Len(writableRoots) :
        StrictlyBelow(writableRoots[i], resolvePathAgainstWorkdir(p, workdir))

\* C19 (as claimed): a patch is in scope if and only if every path of both
\* of its lists, after collapsing '..' and resolving against the working
\* directory, lies strictly below a writable root by whole path segments.
C19_PatchScopeBySegments ==
    pc = "done" =>
        (out <=> \A p \in arg.needed \cup arg.added :
                     InScope(p, arg.workdir, arg.writableRoots))

\* the paths the patch reader extracts from the patch, of both lists
ExtractedPaths(patch) ==
    identify_files_needed(patch) \cup identify_files_added(patch)

\* C38: a patch from which no path is extracted is in scope for every list of
\* writable roots, the empty list included; a patch with at least one
\* extracted path is out of scope when the list of writable roots is empty.
C38_ScopeOnEmptyPathsAndRoots ==
    pc = "done" =>
        /\ ExtractedPaths(arg.patch) = {} => out
        /\ (ExtractedPaths(arg.patch) # {} /\ arg.writableRoots = <<>>) => ~out

\* a patch without paths checked against no root at all
C38_Witness ==
    /\ pc = "done"
    /\ ExtractedPaths(arg.patch) = {}
    /\ arg.writableRoots = <<>>
    /\ out

----------------------------------------------------------------------------
(* exec.ts and sandbox/raw-exec.ts: running a command without a sandbox,   *)
(* and exec.ts: execApplyPatch                                              *)

\* the entries of requiresShell's windowsBuiltIns that the inputs use
windowsBuiltIns ==
    {"cd", "cmd", "dir", "echo", "find", "start", "type", "powershell", "pwsh"}

\* [threw, value]: the tokenizer's exception leaves requiresShell
requiresShell(cmd) ==
    LET firstCommand == IF cmd = <<>> THEN <<>> ELSE ToLowerCase(cmd[1])
    IN  IF /\ platform = "win32"
           /\ Len(firstCommand) = 1
           /\ firstCommand[1] \in windowsBuiltIns
        THEN [threw |-> FALSE, value |-> TRUE]
        ELSE IF Len(cmd) = 1
        THEN LET tokens == parse(cmd[1])
             IN  [threw |-> tokens.threw,
                  value |-> \E i \in 1..Len(tokens.parts) :
                                tokens.parts[i].kind = "op"]
        ELSE [threw |-> FALSE, value |-> FALSE]

\* "convert 'ls' to 'dir' on Windows"
adaptCommandForPlatform(cmd) ==
    IF platform = "win32" /\ cmd # <<>> /\ cmd[1] = S1("ls")
    THEN <<S1("dir")>> \o Tail(cmd)
    ELSE cmd

isPowerShellCommand(cmd) ==
    cmd # <<>> /\ ToLowerCase(cmd[1]) \in {S1("powershell"), S1("pwsh")}

RECURSIVE EscapeSingleQuotes(_)
\* replace(/'/g, "''")
EscapeSingleQuotes(s) ==
    IF s = <<>> THEN <<>>
    ELSE (IF s[1] = "'" THEN <<"'", "'">> ELSE <<s[1]>>)
         \o EscapeSingleQuotes(Tail(s))

\* powershell -Command a b c  becomes  powershell -Command "a b c"
ReformatPowerShell(cmd) ==
    IF /\ isPowerShellCommand(cmd)
       /\ Len(cmd) > 2
       /\ cmd[2] \in {<<"-", "Command">>, <<"-", "c">>}
    THEN LET powershellScript == Join(SubSeq(cmd, 3, Len(cmd)), " ")
         IN  <<cmd[1], <<"-", "Command">>,
               IF platform = "win32" THEN EscapeSingleQuotes(powershellScript)
               ELSE powershellScript>>
    ELSE cmd

ExecResult(stdout, stderr, exitCode) ==
    [stdout |-> stdout, stderr |-> stderr, exitCode |-> exitCode,
     newWorkdir |-> <<>>]

\* pid tells whether spawn started a process: child.pid is defined
NoChild ==
    [spawned |-> FALSE, file |-> <<>>, args |-> <<>>, shell |-> FALSE,
     timeout |-> 0, stdin |-> "none", detached |-> FALSE, pid |-> FALSE]

NoExitEvent == [code |-> [null |-> TRUE, n |-> 0], signal |-> "null"]

\* a call that has not been made: no promise, no child, no timer
NotCalled ==
    [settled |-> "none", result |-> ExecResult(<<>>, <<>>, 1),
     child |-> NoChild, isCdCommand |-> FALSE, timer |-> FALSE,
     cause |-> "none", message |-> <<>>, patchInput |-> <<>>,
     exitEvent |-> NoExitEvent,
     collected |-> [stdout |-> <<>>, stderr |-> <<>>],
     hit |-> [stdout |-> FALSE, stderr |-> FALSE],
     signals |-> <<>>, aborted |-> FALSE, timedOut |-> FALSE,
     childSpawnedPid |-> 0]

\* the caller holds no promise: the call ended by a synchronous exception
Thrown(isCdCommand) ==
    [NotCalled EXCEPT !.settled = "thrown", !.isCdCommand = isCdCommand,
                      !.cause = "exception"]

Resolved(result, child, isCdCommand, cause) ==
    [NotCalled EXCEPT !.settled = "resolved", !.result = result,
                      !.child = child, !.isCdCommand = isCdCommand,
                      !.cause = cause, !.message = result.stderr]

Pending(child, isCdCommand) ==
    [NotCalled EXCEPT !.settled = "pending", !.child = child,
                      !.isCdCommand = isCdCommand]

\* one signal issued: by tree-kill on child.pid, by child.kill on the
\* process handle, by process.kill on childSpawnedPid, or by the timeout of
\* spawn
Signal(via, signal) == [via |-> via, signal |-> signal]

\* killTarget(signal): tree-kill, when child.pid is defined
killTarget(hasPid, signal) ==
    IF hasPid THEN <<Signal("tree-kill", signal)>> ELSE <<>>

\* child.kill(signal): a signal is sent while the process handle is open
childKill(alive, signal) ==
    IF alive THEN <<Signal("child.kill", signal)>> ELSE <<>>

\* the decimal digits a string starts with: the group of /^(\d+)/
RECURSIVE LeadingDigits(_)
LeadingDigits(s) ==
    IF s = <<>> \/ s[1] \notin {ToString(n) : n \in 0..9} THEN <<>>
    ELSE <<s[1]>> \o LeadingDigits(Tail(s))

\* Number of a string of decimal digits
RECURSIVE NumberOfDigits(_)
NumberOfDigits(digits) ==
    IF digits = <<>> THEN 0
    ELSE 10 * NumberOfDigits(SubSeq(digits, 1, Len(digits) - 1))
             + (CHOOSE n \in 0..9 : ToString(n) = digits[Len(digits)])

\* the listener of the first data event of stdout: childSpawnedPid after it
onFirstStdoutData(childSpawnedPid, d) ==
    IF LeadingDigits(d) # <<>> THEN NumberOfDigits(LeadingDigits(d))
    ELSE childSpawnedPid

\* the signals of one run of abortHandler, in the order they are issued; a
\* childSpawnedPid of 0 is null
abortSignals_KillFirst(hasPid, alive, childSpawnedPid) ==
    killTarget(hasPid, "SIGKILL") \o childKill(alive, "SIGKILL")
        \o killTarget(hasPid, "SIGTERM") \o childKill(alive, "SIGTERM")
        \o (IF childSpawnedPid # 0 THEN <<Signal("process.kill", "SIGKILL")>>
            ELSE <<>>)

abortSignals(hasPid, alive, childSpawnedPid) ==
    killTarget(hasPid, "SIGTERM") \o childKill(alive, "SIGTERM")
        \o killTarget(hasPid, "SIGKILL") \o childKill(alive, "SIGKILL")
        \o (IF childSpawnedPid # 0 THEN <<Signal("process.kill", "SIGKILL")>>
            ELSE <<>>)

\* one run of abortHandler on the state o of a call
abortHandler(o, alive, childSpawnedPid) ==
    [o EXCEPT !.aborted = TRUE,
              !.signals = @ \o abortSignals(o.child.pid, alive, childSpawnedPid)]

\* (mutation: the caller's options are spread last and win)
spawnOptionsForExec_CallerWins(options, needsShell) ==
    [timeout |-> options.timeout,
     stdin |-> IF options.stdio = "unset" THEN "ignore" ELSE options.stdio,
     detached |-> options.detached # "false",
     shell |-> needsShell \/ options.shell]

\* spawnOptionsForExec: the caller's options first, then stdio and detached,
\* which replace what the caller gave ("unset" stands for an absent option);
\* of stdio the model keeps the entry of stdin
spawnOptionsForExec(options, needsShell) ==
    [timeout |-> options.timeout, stdin |-> "ignore", detached |-> TRUE,
     shell |-> needsShell \/ options.shell]

\* raw-exec.ts exec, after both shell tests have returned; abortSignal is
\* "none", "fresh" or "aborted", spawnOk tells whether spawn starts a process
rawExecSpawn(adaptedCommand, needsShell, options, isCdCommand, abortSignal, spawnOk) ==
    IF adaptedCommand = <<>>
    THEN Resolved(ExecResult(<<>>, <<"command[0] is not a string">>, 1),
                  NoChild, isCdCommand,
                  "not a string")
    ELSE LET o == spawnOptionsForExec(options, needsShell)
             p == Pending([spawned |-> TRUE, file |-> adaptedCommand[1],
                           args |-> Tail(adaptedCommand),
                           shell |-> o.shell, timeout |-> o.timeout,
                           stdin |-> o.stdin, detached |-> o.detached,
                           pid |-> spawnOk],
                          isCdCommand)
         IN  IF abortSignal = "aborted" THEN abortHandler(p, spawnOk, 0)
             ELSE p

\* raw-exec.ts exec up to the promise it returns
rawExec(originalCmd, options, isCdCommand, abortSignal, spawnOk) ==
    LET adaptedCommand == ReformatPowerShell(adaptCommandForPlatform(originalCmd))
        isPS == isPowerShellCommand(adaptedCommand)
        shellTest == IF isPS THEN [threw |-> FALSE, value |-> TRUE]
                     ELSE requiresShell(adaptedCommand)
    IN  IF shellTest.threw THEN Thrown(isCdCommand)
        ELSE rawExecSpawn(adaptedCommand, shellTest.value, options,
                          isCdCommand, abortSignal, spawnOk)

DEFAULT_TIMEOUT_MS == 60000

\* exec.ts exec with SandboxType.NONE, up to the promise it returns;
\* timeoutInMillis 0 stands for undefined
exec(cmd, timeoutInMillis, abortSignal, spawnOk) ==
    LET isCdCommand == Len(cmd) > 1 /\ ToLowerCase(cmd[1]) = S1("cd")
        dirSuffix == IF platform = "win32" THEN <<" ", "&&", " ", "cd">>
                     ELSE <<" ", "&&", " ", "pwd">>
        commandToExecute ==
            IF isCdCommand
            THEN << <<"cd", " ">> \o Join(Tail(cmd), " ") \o dirSuffix >>
            ELSE cmd
        shellTest == IF isCdCommand THEN [threw |-> FALSE, value |-> TRUE]
                     ELSE requiresShell(cmd)
    IN  IF shellTest.threw THEN Thrown(isCdCommand)
        ELSE rawExec(commandToExecute,
                     [timeout |-> IF timeoutInMillis # 0 THEN timeoutInMillis
                                  ELSE DEFAULT_TIMEOUT_MS,
                      shell |-> shellTest.value,
                      stdio |-> "unset", detached |-> "unset"],
                     isCdCommand, abortSignal, spawnOk)

\* os.constants.signals, for the signals the inputs use
SignalNumber(signal) ==
    CASE signal = "SIGKILL" -> 9
      [] signal = "SIGTERM" -> 15
      [] OTHER -> 0

\* the exit handler's mapping of (code, signal); code is [null, n]
ExitCodeOf_SignalAsIs(code, signal) ==
    IF ~code.null THEN code.n
    ELSE IF SignalNumber(signal) # 0 THEN SignalNumber(signal)
    ELSE 1

ExitCodeOf(code, signal) ==
    IF ~code.null THEN code.n
    ELSE IF SignalNumber(signal) # 0 THEN 128 + SignalNumber(signal)
    ELSE 1

TRUNCATED == <<"\n", "\n", "[Output truncated: too many lines or bytes]">>

addTruncationWarningsIfNecessary_BothStreams(execResult, hitMaxStdout, hitMaxStderr) ==
    [execResult EXCEPT
        !.stdout = IF hitMaxStdout \/ hitMaxStderr THEN @ \o TRUNCATED ELSE @,
        !.stderr = IF hitMaxStdout \/ hitMaxStderr THEN @ \o TRUNCATED ELSE @]

addTruncationWarningsIfNecessary(execResult, hitMaxStdout, hitMaxStderr) ==
    [execResult EXCEPT
        !.stdout = IF hitMaxStdout THEN @ \o TRUNCATED ELSE @,
        !.stderr = IF hitMaxStderr THEN @ \o TRUNCATED ELSE @]

\* exec.ts: the continuation attached to the executor's promise; newPath is
\* the last line of the trimmed stdout, trimmed
thenNewWorkdir(isCdCommand, result) ==
    LET lines == Split(Trim(result.stdout), "\n")
        newPath == IF lines = <<>> THEN <<>> ELSE Trim(lines[Len(lines)])
    IN  IF isCdCommand /\ result.exitCode = 0 /\ result.stdout # <<>>
           /\ newPath # <<>>
        THEN [result EXCEPT !.newWorkdir = newPath]
        ELSE result

PATCH_SUFFIX == <<"*** End Patch">>

RECURSIVE FirstHeredocOpen(_, _)
\* first i with s[i..i+3] = << quote EOF quote, else 0
FirstHeredocOpen(s, i) ==
    IF i + 3 > Len(s) THEN 0
    ELSE IF s[i] = "<<" /\ IsQuote(s[i + 1]) /\ s[i + 2] = "EOF"
            /\ IsQuote(s[i + 3])
    THEN i
    ELSE FirstHeredocOpen(s, i + 1)

\* replace(/('|")?<<('|")EOF('|")/, "")
StripHeredocOpen(s) ==
    LET i == FirstHeredocOpen(s, 1)
        from == IF i > 1 /\ IsQuote(s[i - 1]) THEN i - 1 ELSE i
    IN  IF i = 0 THEN s
        ELSE SubSeq(s, 1, from - 1) \o SubSeq(s, i + 4, Len(s))

RECURSIVE FirstHeredocClose(_, _)
\* first i with s[i..i+2] = "*** End Patch" \n EOF, else 0
FirstHeredocClose(s, i) ==
    IF i + 2 > Len(s) THEN 0
    ELSE IF s[i] = PATCH_SUFFIX[1] /\ s[i + 1] = "\n" /\ s[i + 2] = "EOF"
    THEN i
    ELSE FirstHeredocClose(s, i + 1)

\* replace(/\*\*\* End Patch\nEOF('|")?/, "*** End Patch")
StripHeredocClose(s) ==
    LET i == FirstHeredocClose(s, 1)
        to == IF i + 3 <= Len(s) /\ IsQuote(s[i + 3]) THEN i + 3 ELSE i + 2
    IN  IF i = 0 THEN s
        ELSE SubSeq(s, 1, i) \o SubSeq(s, to + 1, Len(s))

applyPatchInput(patchText) ==
    LET t == Trim(StripHeredocClose(StripHeredocOpen(patchText)))
    IN  IF EndsWith(t, PATCH_SUFFIX) THEN t ELSE t \o <<"\n">> \o PATCH_SUFFIX

\* what process_patch does with the input: returns its report, or throws an
\* Error with a message, or throws a value that is no Error
PatchEngineOutcomes ==
    { [threw |-> FALSE, isError |-> FALSE, text |-> <<"Done!">>],
      [threw |-> TRUE, isError |-> TRUE, text |-> <<"Invalid patch">>],
      [threw |-> TRUE, isError |-> TRUE, text |-> <<>>],
      [threw |-> TRUE, isError |-> FALSE, text |-> <<"ENOENT">>] }

execApplyPatch(patchText, engine) ==
    [ (IF engine.threw
       \* stderr is String(error.message ?? error)
       THEN Resolved(ExecResult(<<>>, engine.text, 1), NoChild, FALSE,
                     "patch exception")
       ELSE Resolved(ExecResult(engine.text, <<>>, 0), NoChild, FALSE,
                     "patched"))
      EXCEPT !.patchInput = applyPatchInput(patchText) ]

----------------------------------------------------------------------------
(* Inputs of the executor harness: one call of exec with SandboxType.NONE   *)
(* or of execApplyPatch, and the events of the spawned child                *)

ExecCommands ==
    { <<>>, <<S1("ls")>>, <<S1("ls"), <<"-", "l">>>>, <<S1("cd")>>,
      <<S1("cd"), S1("src")>>, <<S1("CD"), S1("src")>>,
      <<S1("cd"), S1(BAD_SUBSTITUTION)>>,
      <<S1("cd"), <<"x", ";", "rm", " ", "-", "rf", " ", "y">>>>,
      << <<"ls", " ", "|", " ", "wc">> >>,
      << <<"echo", " ", BAD_SUBSTITUTION>> >>,
      <<S1("echo"), S1(BAD_SUBSTITUTION)>>,
      <<S1("PowerShell"), <<"-", "Command">>, S1("Get"), S1("Date")>>,
      <<S1("pwsh"), <<"-", "c">>, <<"it", "'", "s">>>>,
      <<S1("nosuchprogram")>> }

\* a patch without its last line, and one still wrapped in its heredoc
ExecPatchTexts ==
    { PatchAbs, PatchRel, SubSeq(PatchRel, 1, Len(PatchRel) - 2),
      <<"<<", "'", "EOF", "'", "\n">> \o PatchRel \o <<"\n", "EOF", "'">> }

\* the caller's timeout: 0 stands for undefined
ExecTimeouts == {0, 5000}

\* the caller's abortSignal: none, not yet triggered, or already triggered
AbortSignals == {"none", "fresh", "aborted"}

\* the stdio and detached options of a caller of the raw executor
CallerStdio == {"unset", "inherit", "pipe"}
CallerDetached == {"unset", "false", "true"}

ExecArgs ==
    [fn : {"exec"}, cmd : ExecCommands, patchText : {<<>>},
     timeoutInMillis : ExecTimeouts, abortSignal : AbortSignals,
     stdio : {"unset"}, detached : {"unset"}]
        \cup [fn : {"execApplyPatch"}, cmd : {<<>>}, patchText : ExecPatchTexts,
              timeoutInMillis : {0}, abortSignal : {"none"},
              stdio : {"unset"}, detached : {"unset"}]
        \cup [fn : {"rawExec"}, cmd : {<<S1("ls")>>, <<S1("nosuchprogram")>>},
              patchText : {<<>>}, timeoutInMillis : {5000},
              abortSignal : {"fresh"}, stdio : CallerStdio,
              detached : CallerDetached]

\* what the child can print on stderr before it exits
ChildOutputs == {<<>>, <<"/", "home", "/", "u", "\n">>}

\* the processes the spawned command starts and whose pid it can print
StartedByCommand == {42}

\* what the child can print on stdout, in one chunk: a directory, the pid of
\* a process it started, a count followed by a word
StdoutChunks ==
    { <<"/", "home", "/", "u", "\n">>, <<"4", "2", "\n">>,
      <<"1", " ", "file", "\n">> }

\* the code argument of the exit event: null or a status
ChildCodes ==
    {[null |-> TRUE, n |-> 0]} \cup [null : {FALSE}, n : {0, 1, 2}]

\* the signal argument of the exit event; SIGCUSTOM is not in os.constants
ChildSignals == {"null", "SIGTERM", "SIGKILL", "SIGCUSTOM"}

\* String(err) of the error event
SpawnErrors == {<<"Error: spawn ENOENT">>, <<"Error: spawn EACCES">>}

InitExec ==
    /\ platform \in Platforms
    /\ sandboxExecAvailable = FALSE
    /\ allowNoSandbox = FALSE
    /\ alwaysApprovedCommands = {}
    /\ pending = <<>>
    /\ last = NoStep
    /\ pc = "input"
    /\ arg \in ExecArgs
    /\ out = NotCalled

\* exec is called: it throws, or returns a promise, settled or not; spawn
\* starts a process or fails
CallExec ==
    /\ pc = "input"
    /\ arg.fn = "exec"
    /\ \E spawnOk \in BOOLEAN :
           out' = exec(arg.cmd, arg.timeoutInMillis, arg.abortSignal, spawnOk)
    /\ pc' = IF out'.settled = "pending" THEN "running" ELSE "done"
    /\ UNCHANGED <<platform, sandboxExecAvailable, allowNoSandbox,
                   alwaysApprovedCommands, pending, last, arg>>

\* the raw executor is called by a caller of its own, with that caller's
\* spawn options
CallRawExec ==
    /\ pc = "input"
    /\ arg.fn = "rawExec"
    /\ \E spawnOk \in BOOLEAN :
           out' = rawExec(arg.cmd,
                          [timeout |-> arg.timeoutInMillis, shell |-> FALSE,
                           stdio |-> arg.stdio, detached |-> arg.detached],
                          FALSE, arg.abortSignal, spawnOk)
    /\ pc' = IF out'.settled = "pending" THEN "running" ELSE "done"
    /\ UNCHANGED <<platform, sandboxExecAvailable, allowNoSandbox,
                   alwaysApprovedCommands, pending, last, arg>>

\* the process is running: spawn started it and no exit event has come
ChildAlive == pc = "running" /\ out.child.pid

\* the exit handler: the result is built from what the collectors hold and a
\* 100 ms timer is set
OnExit(code, signal, stdout, stderr) ==
    /\ out' = [out EXCEPT !.timer = TRUE, !.cause = "exit",
                          !.exitEvent = [code |-> code, signal |-> signal],
                          !.collected = [stdout |-> stdout, stderr |-> stderr],
                          !.result = ExecResult(stdout, stderr,
                                                ExitCodeOf(code, signal))]
    /\ pc' = "exited"
    /\ UNCHANGED <<platform, sandboxExecAvailable, allowNoSandbox,
                   alwaysApprovedCommands, pending, last, arg>>

\* the child writes to stdout: the listener of the first data event sets
\* childSpawnedPid and the collector holds the chunk
StdoutData ==
    /\ ChildAlive
    /\ out.collected.stdout = <<>>
    /\ \E d \in StdoutChunks :
           out' = [out EXCEPT
                      !.collected.stdout = d,
                      !.childSpawnedPid = onFirstStdoutData(@, d)]
    /\ UNCHANGED <<platform, sandboxExecAvailable, allowNoSandbox,
                   alwaysApprovedCommands, pending, last, arg, pc>>

\* the child ends of its own accord, or by a signal it does not ignore
ChildExit ==
    /\ ChildAlive
    /\ \E code \in ChildCodes, signal \in ChildSignals, stderr \in ChildOutputs :
           /\ code.null \/ signal = "null"
           /\ OnExit(code, signal, out.collected.stdout, stderr)

\* SIGKILL has been sent to the running process
KillIssued ==
    \E i \in 1..Len(out.signals) :
        /\ out.signals[i].signal = "SIGKILL"
        /\ out.signals[i].via = "child.kill"

\* the system ends a child that was sent SIGKILL
ChildDies ==
    /\ ChildAlive
    /\ KillIssued
    /\ \E stderr \in ChildOutputs :
           OnExit([null |-> TRUE, n |-> 0], "SIGKILL", out.collected.stdout, stderr)

\* the timeout given to spawn elapses: the runtime sends SIGTERM, once
TimeoutElapses ==
    /\ ChildAlive
    /\ ~out.timedOut
    /\ out' = [out EXCEPT !.timedOut = TRUE,
                          !.signals = Append(@, Signal("timeout", "SIGTERM"))]
    /\ UNCHANGED <<platform, sandboxExecAvailable, allowNoSandbox,
                   alwaysApprovedCommands, pending, last, arg, pc>>

\* the caller triggers the abortSignal: the listener, added once the child
\* is spawned and never removed, runs abortHandler, once
Abort ==
    /\ arg.abortSignal = "fresh"
    /\ ~out.aborted
    /\ out.child.spawned
    /\ out' = abortHandler(out, ChildAlive, out.childSpawnedPid)
    /\ UNCHANGED <<platform, sandboxExecAvailable, allowNoSandbox,
                   alwaysApprovedCommands, pending, last, arg, pc>>

\* the timer set by the exit handler fires and resolves the promise
TimerFires ==
    /\ pc = "exited"
    /\ \E hitMaxStdout \in BOOLEAN, hitMaxStderr \in BOOLEAN :
           out' = [out EXCEPT
                      !.settled = "resolved", !.timer = FALSE,
                      !.hit = [stdout |-> hitMaxStdout, stderr |-> hitMaxStderr],
                      !.result = thenNewWorkdir(out.isCdCommand,
                                     addTruncationWarningsIfNecessary(
                                         @, hitMaxStdout, hitMaxStderr))]
    /\ pc' = "done"
    /\ UNCHANGED <<platform, sandboxExecAvailable, allowNoSandbox,
                   alwaysApprovedCommands, pending, last, arg>>

\* the child's error event resolves the promise at once; a timer already
\* set finds the promise settled
ChildError ==
    /\ pc \in {"running", "exited"}
    /\ \E err \in SpawnErrors, hitMaxStdout \in BOOLEAN, hitMaxStderr \in BOOLEAN :
           out' = [out EXCEPT
                      !.settled = "resolved", !.cause = "error",
                      !.message = err,
                      !.collected = [stdout |-> <<>>, stderr |-> err],
                      !.hit = [stdout |-> hitMaxStdout, stderr |-> hitMaxStderr],
                      !.result = thenNewWorkdir(out.isCdCommand,
                                     addTruncationWarningsIfNecessary(
                                         ExecResult(<<>>, err, 1),
                                         hitMaxStdout, hitMaxStderr))]
    /\ pc' = "done"
    /\ UNCHANGED <<platform, sandboxExecAvailable, allowNoSandbox,
                   alwaysApprovedCommands, pending, last, arg>>

\* execApplyPatch is called: the patch engine runs in process
CallExecApplyPatch ==
    /\ pc = "input"
    /\ arg.fn = "execApplyPatch"
    /\ \E engine \in PatchEngineOutcomes :
           out' = execApplyPatch(arg.patchText, engine)
    /\ pc' = "done"
    /\ UNCHANGED <<platform, sandboxExecAvailable, allowNoSandbox,
                   alwaysApprovedCommands, pending, last, arg>>

NextExec ==
    \/ CallExec
    \/ CallRawExec
    \/ StdoutData
    \/ ChildExit
    \/ ChildDies
    \/ TimeoutElapses
    \/ Abort
    \/ TimerFires
    \/ ChildError
    \/ CallExecApplyPatch

SpecExec == InitExec /\ [][NextExec]_vars

\* spawn started no process: the error event is due at the next tick
SpawnFailure == pc = "running" /\ ~out.child.pid /\ ChildError

\* what the scheduling guarantees: timers fire, the error event of a failed
\* spawn is emitted, and a process that was sent SIGKILL ends
SpecExecLive ==
    /\ SpecExec
    /\ WF_vars(TimerFires)
    /\ WF_vars(TimeoutElapses)
    /\ WF_vars(SpawnFailure)
    /\ WF_vars(ChildDies)

----------------------------------------------------------------------------
(* Properties of the executors, checked under SpecExec *)

\* the call is over: it threw, or the promise it returned is settled
CallEnded == pc = "done"

\* the result carries the message of the failure at the start of stderr
MessageInStderr == StartsWith(out.result.stderr, out.message)

\* C20: every call of exec (run without a sandbox) and of execApplyPatch
\* ends by delivering an ExecResult with an integer exitCode, never by an
\* exception or a rejected promise; after a spawn failure, for a command
\* without a first string and after a patch-engine exception the exitCode is
\* nonzero and stderr holds the message.
C20_ExecutorsAlwaysDeliverResult ==
    CallEnded =>
        /\ out.settled = "resolved"
        /\ out.result.exitCode \in Int
        /\ out.cause \in {"error", "not a string", "patch exception"} =>
               /\ out.result.exitCode # 0
               /\ MessageInStderr

\* the exit handler has run and its result has not been replaced
ExitReported == pc \in {"exited", "done"} /\ out.cause = "exit"

\* C21: on the exit event the reported exitCode is the status code when
\* there is one, else 128 plus the signal number for a known signal, else 1;
\* it is a number, and nonzero when the child was ended by a signal.
C21_ExitCodeMapping ==
    ExitReported =>
        LET code == out.exitEvent.code
            signal == out.exitEvent.signal
            exitCode == out.result.exitCode
        IN  /\ ~code.null => exitCode = code.n
            /\ code.null /\ signal = "SIGTERM" => exitCode = 143
            /\ code.null /\ signal = "SIGKILL" => exitCode = 137
            /\ code.null /\ signal \notin {"SIGTERM", "SIGKILL"} => exitCode = 1
            /\ exitCode \in Nat
            /\ signal # "null" => exitCode # 0

C21_Witness ==
    /\ pc = "done"
    /\ out.cause = "exit"
    /\ out.exitEvent.signal = "SIGKILL"
    /\ out.result.exitCode = 137

\* how many times the truncation notice occurs in a stream
Notices(stream) ==
    Cardinality({ i \in 1..Len(stream) : stream[i] = TRUNCATED[Len(TRUNCATED)] })

\* the stream is what the collector held, followed by the notice if the
\* collector hit a cap, and holds the notice that many times
NoticeIffHit(stream, held, hitMax) ==
    /\ stream = IF hitMax THEN held \o TRUNCATED ELSE held
    /\ Notices(stream) = IF hitMax THEN 1 ELSE 0

\* C25: in the result of a completed execution the truncation notice stands
\* once, at the end, on each stream whose collector hit a cap and on no other
\* stream, each stream being decided on its own.
C25_TruncationNoticePerStream ==
    (pc = "done" /\ out.cause \in {"exit", "error"}) =>
        /\ NoticeIffHit(out.result.stdout, out.collected.stdout, out.hit.stdout)
        /\ NoticeIffHit(out.result.stderr, out.collected.stderr, out.hit.stderr)

C25_Witness ==
    /\ pc = "done"
    /\ out.cause = "exit"
    /\ out.hit = [stdout |-> TRUE, stderr |-> FALSE]
    /\ out.collected.stderr # <<>>
    /\ Notices(out.result.stdout) = 1
    /\ Notices(out.result.stderr) = 0

\* C33: every process the raw executor spawns has stdin ignored and is
\* detached into its own process group, whatever stdio and detached options
\* the caller passed.
C33_StdinIgnoredAndDetached ==
    out.child.spawned => (out.child.stdin = "ignore" /\ out.child.detached)

\* a caller asked for an inherited stdin and an attached child
C33_Witness ==
    /\ arg.fn = "rawExec"
    /\ arg.stdio = "inherit"
    /\ arg.detached = "false"
    /\ out.child.spawned
    /\ out.child.pid
    /\ out.child.stdin = "ignore"
    /\ out.child.detached

\* the programs a shell starts for a command line: the first word of each
\* segment between control operators
RECURSIVE ProgramsOf(_, _)
ProgramsOf(parts, atStart) ==
    IF parts = <<>> THEN {}
    ELSE IF parts[1].kind = "op" THEN ProgramsOf(Tail(parts), TRUE)
    ELSE (IF atStart THEN {parts[1].val} ELSE {})
             \cup ProgramsOf(Tail(parts), FALSE)

\* the programs the spawned child invokes: those of its command line when it
\* is run by a shell, else the executable itself
InvokedPrograms(child) ==
    IF child.shell THEN ProgramsOf(parse(child.file).parts, TRUE)
    ELSE {child.file}

\* the first token is cd, in any case
FirstTokenCd(cmd) == Len(cmd) >= 1 /\ ToLowerCase(cmd[1]) = S1("cd")

\* C34: for a command whose first token is cd, which the classifier accepts
\* and canAutoApprove auto-approves without sandbox, the child the dispatcher
\* spawns invokes no program other than cd and the directory-printing
\* command (pwd, or cd on Windows), whatever the arguments hold.
C34_CdRunsOnlyCd ==
    (/\ arg.fn = "exec"
     /\ FirstTokenCd(arg.cmd)
     /\ isSafeCommand(arg.cmd).ok
     /\ out.child.spawned) =>
        InvokedPrograms(out.child) \subseteq {S1("cd"), S1("pwd")}

\* the child has exited and the promise is resolved with its ExecResult
ResultDelivered == pc = "done" /\ out.cause = "exit" /\ out.settled = "resolved"

\* C35: once the child has exited and the ExecResult has been delivered, a
\* later trigger of the cancellation signal issues no signal: no step taken
\* after the delivery adds to the signals sent.
C35_NoSignalAfterDelivery ==
    [][ResultDelivered => out'.signals = out.signals]_vars

\* the pids process.kill has been called on
ProcessKillTargets ==
    { out.childSpawnedPid : i \in { j \in 1..Len(out.signals) :
                                       out.signals[j].via = "process.kill" } }

\* C36: the signals of a cancellation go to the spawned child and its process
\* tree only: the pid that process.kill is called on, taken from the digits
\* at the start of the first stdout chunk, is the pid of a process the spawned
\* command started.
C36_ExtraPidStartedByCommand == ProcessKillTargets \subseteq StartedByCommand

\* execCommand's return value: the fields it copies out of the executor's
\* result; newWorkdir is not among them (<<>> stands for an absent field)
ExecCommandSummary(execResult) ==
    [stdout |-> execResult.stdout, stderr |-> execResult.stderr,
     exitCode |-> execResult.exitCode, newWorkdir |-> <<>>]

\* convertSummaryToResult; the duration is left out of the fallback text
convertSummaryToResult(summary) ==
    [outputText |-> IF summary.stdout # <<>> THEN summary.stdout
                    ELSE IF summary.stderr # <<>> THEN summary.stderr
                    ELSE <<"(code: ", ToString(summary.exitCode), ")">>,
     metadata   |-> [exitCode |-> summary.exitCode,
                     raw_stdout |-> summary.stdout,
                     raw_stderr |-> summary.stderr],
     newWorkdir |-> summary.newWorkdir]

\* what handleExecCommand returns for the execution that has ended
HandleExecCommandResult == convertSummaryToResult(ExecCommandSummary(out.result))

\* the command is `cd <dir>`
IsCdWithDir(cmd) == Len(cmd) > 1 /\ cmd[1] \in {S1("cd"), S1("CD")}

\* the last line of an output that ends in at most one line break
LastLineOf(stdout) ==
    LET lines == Split(Trim(stdout), "\n") IN lines[Len(lines)]

\* C26: the result handleExecCommand returns for a `cd <dir>` that ended with
\* exit code 0 and a non-empty stdout carries the last line of stdout as
\* newWorkdir, and the result of a failed cd or of any other command carries
\* no newWorkdir.
C26_NewWorkdirReported ==
    (pc = "done" /\ arg.fn = "exec" /\ out.settled = "resolved") =>
        IF /\ IsCdWithDir(arg.cmd)
           /\ out.result.exitCode = 0
           /\ Trim(out.result.stdout) # <<>>
        THEN HandleExecCommandResult.newWorkdir = LastLineOf(out.result.stdout)
        ELSE HandleExecCommandResult.newWorkdir = <<>>

----------------------------------------------------------------------------
(* Properties of the executors in time, checked under SpecExecLive *)

\* the promise is resolved with a nonzero exitCode
ResolvedNonzero == out.settled = "resolved" /\ out.result.exitCode # 0

\* C22: once the timeout has elapsed on a running child, the child is
\* terminated and the promise is eventually resolved with a nonzero exitCode,
\* whether or not the caller cancels.
C22_TimeoutEndsExecution == out.timedOut ~> ResolvedNonzero

\* the signals issued by the step
NewSignals == SubSeq(out'.signals, Len(out.signals) + 1, Len(out'.signals))

\* the step is a run of abortHandler
AbortHandlerRuns == ~out.aborted /\ out'.aborted

\* s holds SIGTERM and, later, SIGKILL, both issued the given way
TermThenKill(s, via) ==
    \E i, j \in 1..Len(s) :
        /\ i < j
        /\ s[i] = Signal(via, "SIGTERM")
        /\ s[j] = Signal(via, "SIGKILL")

\* every SIGKILL aimed at the child or its tree comes after a SIGTERM
NoKillBeforeTerm(s) ==
    \A j \in 1..Len(s) :
        (s[j].signal = "SIGKILL" /\ s[j].via \in {"tree-kill", "child.kill"})
            => \E i \in 1..(j - 1) :
                   s[i].signal = "SIGTERM" /\ s[i].via \in {"tree-kill", "child.kill"}

Cancelled ==
    /\ arg.fn = "exec"
    /\ pc # "input"
    /\ arg.abortSignal = "aborted" \/ out.aborted

\* C24: when the cancellation signal is triggered while a child runs, or is
\* already triggered at the call of exec, the child is sent SIGKILL and the
\* promise returned by exec is eventually resolved with an ExecResult.
C24_CancellationResolves ==
    /\ []((out.aborted /\ ChildAlive) => KillIssued)
    /\ Cancelled ~> (out.settled = "resolved")

----------------------------------------------------------------------------
(* approvals.ts: what a call of isSafeCommand or canAutoApprove leaves       *)
(* behind.  The module keeps three objects between calls: the regular       *)
(* expression VALID_SED_N_ARG and the sets UNSAFE_OPTIONS_FOR_FIND_COMMAND  *)
(* and SAFE_SHELL_OPERATORS.  The sets are only read (has); the regular     *)
(* expression carries lastIndex.                                            *)

\* RegExp.prototype.test of a pattern anchored at both ends: with the g flag
\* the search starts at lastIndex, a match moves lastIndex to its end and a
\* failure resets it; without the flag lastIndex is neither read nor written
RegExpTest(flags, lastIndex, str, matches) ==
    IF flags # "g" THEN [result |-> matches, lastIndex |-> lastIndex]
    ELSE IF lastIndex = 0 /\ matches
    THEN [result |-> TRUE, lastIndex |-> Len(str)]
    ELSE [result |-> FALSE, lastIndex |-> 0]

\* (mutation: the expression is global)
VALID_SED_N_ARG_flags_Global == "g"

\* the flags of VALID_SED_N_ARG = /^[0-9]+(,[0-9]+)?[p]$/ : none
VALID_SED_N_ARG_flags == ""

\* The call reaches VALID_SED_N_ARG.test: the classifier is called (always
\* by isSafeCommand; by canAutoApprove at line 124, under suggest and
\* auto-edit for a first token other than apply_patch) and comes to the
\* handler of sed with a second token -n and a third that is not undefined.
\* (The evaluator calls the classifier on each segment of a script too; the
\* scripts drawn below hold no sed.)
ReachesSedTest(fn, command, policy) ==
    /\ fn = "canAutoApprove" => ~isFullAutoOrNone(policy)
    /\ Len(command) >= 3
    /\ ToLowerCase(command[1]) = S1("sed")
    /\ ToLowerCase(command[2]) = <<"-", "n">>

\* what the call returns when the handler of sed declines: null from
\* isSafeCommand (line 650), ask-user from canAutoApprove (line 201)
DeclinedBySed(fn) == IF fn = "isSafeCommand" THEN NotSafe ELSE AskUser

\* the answer of either function
Answer(fn, command, workdir, policy, writableRoots) ==
    IF fn = "isSafeCommand" THEN isSafeCommand(command)
    ELSE canAutoApprove(command, workdir, policy, writableRoots)

\* VALID_SED_N_ARG.test(cmdArray[2]) with lastIndex before the call
SedTest(command, lastIndex) ==
    RegExpTest(VALID_SED_N_ARG_flags, lastIndex, command[3],
               isValidSedNArg(command[3]))

\* One call of either function with the expression's lastIndex before the
\* call: the answer and lastIndex after the call.  The answer is that of
\* isSafeCommand or canAutoApprove unless the test of the expression comes
\* out otherwise than the pattern says.
CallAt(fn, command, workdir, policy, writableRoots, lastIndex) ==
    IF ReachesSedTest(fn, command, policy)
    THEN [value |-> IF SedTest(command, lastIndex).result
                           = isValidSedNArg(command[3])
                    THEN Answer(fn, command, workdir, policy, writableRoots)
                    ELSE DeclinedBySed(fn),
          lastIndex |-> SedTest(command, lastIndex).lastIndex]
    ELSE [value |-> Answer(fn, command, workdir, policy, writableRoots),
          lastIndex |-> lastIndex]

----------------------------------------------------------------------------
(* The repetition harness: a call, other calls in between, the same call    *)
(* again                                                                    *)

MaxBetween == 2

RepeatCommands ==
    { <<>>, <<S1("ls")>>, <<S1("rm"), S1("x")>>, <<S1("git"), S1("status")>>,
      <<S1("sed"), <<"-", "n">>, <<"5", "p">>>>,
      <<S1("sed"), <<"-", "n">>, <<"1", ",", "5", "p">>, S1("f.txt")>>,
      <<S1("sed"), <<"-", "n">>, S1("5")>>,
      <<S1("find"), S1("."), <<"-", "delete">>>>,
      << <<"'", "dir", " ", ">", " ", "out.txt", "'">> >>,
      <<APPLY_PATCH, PatchAbs>>,
      <<BASH, DASH_LC, ScriptSafe>>, <<BASH, DASH_LC, ScriptBad>>,
      <<BASH, DASH_LC, ScriptPatch>> }

RepeatFunctions == {"isSafeCommand", "canAutoApprove"}

\* what the session approval cache holds when the calls are made
RepeatCaches == { {}, {S1("sed"), S1("rm")} }

InitRepeat ==
    /\ platform \in {"linux", "win32"}
    /\ sandboxExecAvailable = FALSE
    /\ allowNoSandbox = FALSE
    /\ alwaysApprovedCommands \in RepeatCaches
    /\ pending = <<>>
    /\ last = NoStep
    /\ pc = "input"
    /\ \E fn \in RepeatFunctions, c \in RepeatCommands, p \in Policies :
           arg = [fn |-> fn, command |-> c, workdir |-> <<>>, policy |-> p,
                  writableRoots |-> <<PROJ>>, cache |-> alwaysApprovedCommands]
    /\ out = [command |-> arg.command, lastIndex |-> 0, between |-> 0,
              first |-> NoVerdict, second |-> NoVerdict]

\* a call in the session's working directory, with the expression as the
\* calls before have left it
Called(fn, command, policy) ==
    CallAt(fn, command, arg.workdir, policy, arg.writableRoots, out.lastIndex)

\* The first call.  Both functions take the command as a ReadonlyArray and
\* isSafeCommand works on a copy ([...command]); neither has the cache in
\* scope, which is private to handle-exec-command.ts.
CallFirst ==
    /\ pc = "input"
    /\ \E r \in {Called(arg.fn, out.command, arg.policy)} :
           out' = [out EXCEPT !.first = r.value, !.lastIndex = r.lastIndex]
    /\ pc' = "between"
    /\ UNCHANGED <<platform, sandboxExecAvailable, allowNoSandbox,
                   alwaysApprovedCommands, pending, last, arg>>

\* a call of either function on another command
CallBetween ==
    /\ pc = "between"
    /\ out.between < MaxBetween
    /\ \E fn \in RepeatFunctions, c \in RepeatCommands, p \in Policies :
           \E r \in {Called(fn, c, p)} :
               out' = [out EXCEPT !.between = @ + 1, !.lastIndex = r.lastIndex]
    /\ UNCHANGED <<platform, sandboxExecAvailable, allowNoSandbox,
                   alwaysApprovedCommands, pending, last, pc, arg>>

\* the first call again, with the same arguments
CallSecond ==
    /\ pc = "between"
    /\ \E r \in {Called(arg.fn, out.command, arg.policy)} :
           out' = [out EXCEPT !.second = r.value, !.lastIndex = r.lastIndex]
    /\ pc' = "done"
    /\ UNCHANGED <<platform, sandboxExecAvailable, allowNoSandbox,
                   alwaysApprovedCommands, pending, last, arg>>

NextRepeat == CallFirst \/ CallBetween \/ CallSecond

SpecRepeat == InitRepeat /\ [][NextRepeat]_vars

----------------------------------------------------------------------------
(* Properties of repeated calls, checked under SpecRepeat *)

====
